---- MODULE Spec2Model ----
(***************************************************************************)
(* dotsync: the relocation and link-state engine.                          *)
(*                                                                         *)
(* The state is the filesystem (original paths, the storage directory,     *)
(* the backup directory), the persisted manifest, and the clock that names *)
(* backup files.  Each command of the CLI (add, link, unlink) is one       *)
(* action; the operating system's answers (which call fails) and the       *)
(* user's answers are inputs of the action.                                *)
(*                                                                         *)
(* A Go string is a sequence of one-character strings, so that prefix,     *)
(* suffix and separator handling are computed as the code computes them.   *)
(***************************************************************************)
EXTENDS Naturals, Integers, Sequences, FiniteSets, TLC

VARIABLES fs, manifest, now, inj, last, steps

vars == <<fs, manifest, now, inj, last, steps>>

(***************************************************************************)
(* Bounds of the model.  MaxFaults: how many operating-system calls may    *)
(* fail for reasons outside the program during one behaviour (of a run of  *)
(* link or unlink over several files: MaxLinkFaults; of the adds with     *)
(* given and typed names: MaxHomeFaults).  MaxNow: how many seconds the    *)
(* clock may advance.  MaxCmds: commands per behaviour.                    *)
(***************************************************************************)
MaxFaults == 2
MaxLinkFaults == 1
MaxHomeFaults == 1
MaxNow == 1
MaxCmds == 2

(***************************************************************************)
(* strings                                                                 *)
(***************************************************************************)
Separator == "/"

HasPrefix(s, p) == Len(p) <= Len(s) /\ SubSeq(s, 1, Len(p)) = p

HasSuffix(s, p) == Len(p) <= Len(s) /\ SubSeq(s, Len(s) - Len(p) + 1, Len(s)) = p

TrimPrefix(s, p) == IF HasPrefix(s, p) THEN SubSeq(s, Len(p) + 1, Len(s)) ELSE s

TrimSuffix(s, p) == IF HasSuffix(s, p) THEN SubSeq(s, 1, Len(s) - Len(p)) ELSE s

RECURSIVE Split(_)
Split(s) ==
    IF \A i \in 1..Len(s) : s[i] # Separator
    THEN <<s>>
    ELSE LET i == CHOOSE k \in 1..Len(s) :
                      s[k] = Separator /\ \A j \in 1..(k - 1) : s[j] # Separator
         IN  <<SubSeq(s, 1, i - 1)>> \o Split(SubSeq(s, i + 1, Len(s)))

RECURSIVE JoinSep(_)
JoinSep(parts) ==
    IF parts = <<>> THEN <<>>
    ELSE IF Len(parts) = 1 THEN parts[1]
    ELSE parts[1] \o <<Separator>> \o JoinSep(Tail(parts))

(***************************************************************************)
(* path/filepath                                                           *)
(***************************************************************************)
IsAbs(p) == Len(p) > 0 /\ p[1] = Separator

RECURSIVE CleanStack(_, _, _)
CleanStack(segs, stack, rooted) ==
    IF segs = <<>> THEN stack
    ELSE LET s == Head(segs)
             r == Tail(segs)
         IN  IF s = <<>> \/ s = <<".">> THEN CleanStack(r, stack, rooted)
             ELSE IF s = <<".", ".">>
                  THEN IF stack # <<>> /\ stack[Len(stack)] # <<".", ".">>
                       THEN CleanStack(r, SubSeq(stack, 1, Len(stack) - 1), rooted)
                       ELSE IF rooted THEN CleanStack(r, stack, rooted)
                       ELSE CleanStack(r, Append(stack, s), rooted)
                  ELSE CleanStack(r, Append(stack, s), rooted)

CleanJoin(rooted, stack) ==
    IF rooted THEN <<Separator>> \o JoinSep(stack)
    ELSE IF stack = <<>> THEN <<".">>
    ELSE JoinSep(stack)

CleanRooted(p, rooted) == CleanJoin(rooted, CleanStack(Split(p), <<>>, rooted))

Clean(p) == IF p = <<>> THEN <<".">> ELSE CleanRooted(p, IsAbs(p))

JoinNonEmpty(ne) == IF ne = <<>> THEN <<>> ELSE Clean(JoinSep(ne))

Join(elems) == JoinNonEmpty(SelectSeq(elems, LAMBDA e : e # <<>>))

LastSep(p) ==
    IF \E i \in 1..Len(p) : p[i] = Separator
    THEN CHOOSE i \in 1..Len(p) :
             p[i] = Separator /\ \A j \in (i + 1)..Len(p) : p[j] # Separator
    ELSE 0

Dir(p) == Clean(SubSeq(p, 1, LastSep(p)))

RECURSIVE StripTrailingSep(_)
StripTrailingSep(p) ==
    IF Len(p) > 0 /\ p[Len(p)] = Separator
    THEN StripTrailingSep(SubSeq(p, 1, Len(p) - 1))
    ELSE p

BaseStripped(q) ==
    IF q = <<>> THEN <<Separator>> ELSE SubSeq(q, LastSep(q) + 1, Len(q))

Base(p) == IF p = <<>> THEN <<".">> ELSE BaseStripped(StripTrailingSep(p))

Elems(p) == SelectSeq(Split(p), LAMBDA e : e # <<>>)

RECURSIVE CommonLen(_, _)
CommonLen(a, b) ==
    IF a # <<>> /\ b # <<>> /\ Head(a) = Head(b)
    THEN 1 + CommonLen(Tail(a), Tail(b))
    ELSE 0

RelElems(be, te, n) ==
    JoinSep([i \in 1..(Len(be) - n) |-> <<".", ".">>] \o SubSeq(te, n + 1, Len(te)))

RelClean(b, t) ==
    IF b = t THEN <<".">>
    ELSE RelElems(IF b = <<".">> THEN <<>> ELSE Elems(b),
                  IF t = <<".">> THEN <<>> ELSE Elems(t),
                  CommonLen(IF b = <<".">> THEN <<>> ELSE Elems(b),
                            IF t = <<".">> THEN <<>> ELSE Elems(t)))

Rel(basepath, targpath) == RelClean(Clean(basepath), Clean(targpath))

(***************************************************************************)
(* The filesystem: a function from the paths that exist to their nodes.    *)
(* Directories are implicit (MkdirAll creates them; it can fail).          *)
(* A command runs on a threaded state st = [fs, inj, now]: inj counts the  *)
(* calls that may still fail for outside reasons, now is the clock.  Every *)
(* call returns the SET of its possible results [fs, inj, now, err],       *)
(* err = "" meaning nil.                                                   *)
(***************************************************************************)
NoNode == [kind |-> "none", data |-> "", mode |-> "", target |-> <<>>]

FileNode(d, m) == [kind |-> "file", data |-> d, mode |-> m, target |-> <<>>]

LinkNode(t) == [kind |-> "link", data |-> "", mode |-> "", target |-> t]

\* A directory that a call is pointed at (the others are implicit).
DirNode == [kind |-> "dir", data |-> "", mode |-> "0755", target |-> <<>>]

Put(f, p, n) == [q \in (DOMAIN f) \cup {p} |-> IF q = p THEN n ELSE f[q]]

Del(f, p) == [q \in (DOMAIN f) \ {p} |-> f[q]]

Lstat(f, p) == IF p \in DOMAIN f THEN f[p] ELSE NoNode

RECURSIVE Follow(_, _, _)
Follow(f, p, seen) ==
    IF p \in seen THEN [err |-> "ELOOP", path |-> p]
    ELSE IF p \notin DOMAIN f THEN [err |-> "ENOENT", path |-> p]
    ELSE IF f[p].kind = "link" THEN Follow(f, Clean(f[p].target), seen \cup {p})
    ELSE [err |-> "", path |-> p]

Stat(f, p) == Follow(f, p, {})

St(r) == [fs |-> r.fs, inj |-> r.inj, now |-> r.now]

Ret(r, e) == [fs |-> r.fs, inj |-> r.inj, now |-> r.now, err |-> e]

WithFs(st, f) == [fs |-> f, inj |-> st.inj, now |-> st.now]

Inject(st, e) ==
    IF st.inj > 0
    THEN {[fs |-> st.fs, inj |-> st.inj - 1, now |-> st.now, err |-> e]}
    ELSE {}

OsMkdirAll(st) == {Ret(st, "")} \cup Inject(st, "EACCES")

OsRename(st, src, dst) ==
    IF src \notin DOMAIN st.fs THEN {Ret(st, "ENOENT")}
    ELSE {Ret(WithFs(st, Put(Del(st.fs, src), dst, st.fs[src])), "")}
             \cup Inject(st, "EXDEV")

OsRemove(st, p) ==
    IF p \notin DOMAIN st.fs THEN {Ret(st, "ENOENT")}
    ELSE {Ret(WithFs(st, Del(st.fs, p)), "")} \cup Inject(st, "EACCES")

OsSymlink(st, target, link) ==
    IF link \in DOMAIN st.fs THEN {Ret(st, "EEXIST")}
    ELSE {Ret(WithFs(st, Put(st.fs, link, LinkNode(target))), "")}
             \cup Inject(st, "EPERM")

PartialOf(d) == IF d = "" THEN "" ELSE "partial"

\* os.OpenFile(dst, O_CREATE|O_WRONLY|O_TRUNC, mode) followed by io.Copy from
\* the file already opened at srcReal.  Opening follows symlinks at dst and
\* truncates what it finds, the source itself included.
OpenCopy(st, srcReal, dst) ==
    LET d == Stat(st.fs, dst)
        srcNode == st.fs[srcReal]
        mode == IF d.err = "" THEN st.fs[d.path].mode ELSE srcNode.mode
        data == IF d.path = srcReal THEN "" ELSE srcNode.data
        whole == WithFs(st, Put(st.fs, d.path, FileNode(data, mode)))
        part == WithFs(st, Put(st.fs, d.path, FileNode(PartialOf(data), mode)))
    IN  IF d.err = "ELOOP" THEN {Ret(st, "ELOOP")}
        ELSE Inject(st, "EACCES") \cup {Ret(whole, "")} \cup Inject(part, "EIO")

(***************************************************************************)
(* package symlink                                                         *)
(***************************************************************************)
\* A Create that hands os.Symlink the file name of the target instead of
\* its path.
Create_BaseTarget(st, linkPath, targetPath) ==
    UNION { IF m.err # "" THEN {Ret(m, "creating parent directory")}
            ELSE { Ret(s, IF s.err # "" THEN "creating symlink" ELSE "") :
                       s \in OsSymlink(St(m), Base(targetPath), linkPath) } :
            m \in OsMkdirAll(st) }

Create(st, linkPath, targetPath) ==
    UNION { IF m.err # "" THEN {Ret(m, "creating parent directory")}
            ELSE { Ret(s, IF s.err # "" THEN "creating symlink" ELSE "") :
                       s \in OsSymlink(St(m), targetPath, linkPath) } :
            m \in OsMkdirAll(st) }

\* A Remove that does not look at what it removes.
Remove_Anything(st, linkPath) ==
    IF Lstat(st.fs, linkPath).kind = "none" THEN {Ret(st, "")}
    ELSE OsRemove(st, linkPath)

Remove(st, linkPath) ==
    IF Lstat(st.fs, linkPath).kind = "none" THEN {Ret(st, "")}
    ELSE IF Lstat(st.fs, linkPath).kind # "link" THEN {Ret(st, "not a symlink")}
    ELSE OsRemove(st, linkPath)

StatusNotExist == "not exist"
StatusLinked == "linked"
StatusBroken == "broken"
StatusIncorrect == "incorrect"
StatusNotLinked == "not linked"

Abs(p) == Clean(p)

\* A Check that compares the targets before it looks whether the target
\* can be reached.
Check_EqualityFirst(f, linkPath, expectedTarget) ==
    LET info == Lstat(f, linkPath)
        actualTarget == info.target
        reach == Stat(f, linkPath)
    IN  IF info.kind = "none"
        THEN [status |-> StatusNotExist, target |-> <<>>, err |-> ""]
        ELSE IF info.kind # "link"
        THEN [status |-> StatusNotLinked, target |-> <<>>, err |-> ""]
        ELSE IF actualTarget # expectedTarget /\ Abs(expectedTarget) # Abs(actualTarget)
        THEN [status |-> StatusIncorrect, target |-> actualTarget, err |-> ""]
        ELSE IF reach.err = "ENOENT"
        THEN [status |-> StatusBroken, target |-> actualTarget, err |-> ""]
        ELSE IF reach.err # ""
        THEN [status |-> StatusNotExist, target |-> actualTarget, err |-> reach.err]
        ELSE [status |-> StatusLinked, target |-> actualTarget, err |-> ""]

\* A non-nil error comes with the zero Status, which is StatusNotExist.
Check(f, linkPath, expectedTarget) ==
    LET info == Lstat(f, linkPath)
        actualTarget == info.target
        reach == Stat(f, linkPath)
    IN  IF info.kind = "none"
        THEN [status |-> StatusNotExist, target |-> <<>>, err |-> ""]
        ELSE IF info.kind # "link"
        THEN [status |-> StatusNotLinked, target |-> <<>>, err |-> ""]
        ELSE IF reach.err = "ENOENT"
        THEN [status |-> StatusBroken, target |-> actualTarget, err |-> ""]
        ELSE IF reach.err # ""
        THEN [status |-> StatusNotExist, target |-> actualTarget, err |-> reach.err]
        ELSE IF actualTarget # expectedTarget /\ Abs(expectedTarget) # Abs(actualTarget)
        THEN [status |-> StatusIncorrect, target |-> actualTarget, err |-> ""]
        ELSE [status |-> StatusLinked, target |-> actualTarget, err |-> ""]

copyFile(st, src, dst) ==
    LET s == Stat(st.fs, src)
    IN  IF s.err # "" THEN {Ret(st, s.err)}
        ELSE Inject(st, "EACCES") \cup
             UNION { IF m.err # "" THEN {m} ELSE OpenCopy(St(m), s.path, dst) :
                     m \in OsMkdirAll(st) }

CopyFile(st, src, dst) == copyFile(st, src, dst)

MoveFile(st, src, dst) ==
    LET remove(c) ==
            UNION { IF x.err = "" THEN {x}
                    ELSE { Ret(y, "removing original file") : y \in OsRemove(St(x), dst) } :
                    x \in OsRemove(St(c), src) }
        copy(r) ==
            UNION { IF c.err # "" THEN {c} ELSE remove(c) :
                    c \in copyFile(St(r), src, dst) }
        rename(m) ==
            UNION { IF r.err = "" THEN {r} ELSE copy(r) :
                    r \in OsRename(St(m), src, dst) }
    IN  UNION { IF m.err # "" THEN {Ret(m, "creating destination directory")}
                ELSE rename(m) :
                m \in OsMkdirAll(st) }

(***************************************************************************)
(* The machine: home directory, storage directory, platform.               *)
(***************************************************************************)
UserHomeDir == <<"/", "h">>

StoragePath == <<"/", "s">>

GOOS == "linux"

DotSync == <<"d", "o", "t", "s", "y", "n", "c">>

DotConfig == <<".", "c", "o", "n", "f", "i", "g">>

(***************************************************************************)
(* package pathutil (infer.go)                                             *)
(***************************************************************************)
contractHome(path, home) ==
    IF path = home THEN <<"~">>
    ELSE IF HasPrefix(path, home \o <<Separator>>)
    THEN <<"~">> \o SubSeq(path, Len(home) + 1, Len(path))
    ELSE path

ContractHome(path) == contractHome(path, UserHomeDir)

ExpandHome(path) ==
    IF ~HasPrefix(path, <<"~">>) THEN path
    ELSE IF path = <<"~">> THEN UserHomeDir
    ELSE IF HasPrefix(path, <<"~", "/">>) \/ HasPrefix(path, <<"~", "\\">>)
    THEN Join(<<UserHomeDir, SubSeq(path, 3, Len(path))>>)
    ELSE path

IsUnderHome(absPath) == HasPrefix(absPath, UserHomeDir)

AbsolutePath(path) == Abs(ExpandHome(path))

NoInfer == [ok |-> FALSE, Name |-> <<>>, Root |-> <<>>, RelPath |-> <<>>]

InferResult(n, r, p) == [ok |-> TRUE, Name |-> n, Root |-> r, RelPath |-> p]

Library == <<"L", "i", "b", "r", "a", "r", "y">>

AppSupport ==
    <<"A", "p", "p", "l", "i", "c", "a", "t", "i", "o", "n", " ",
      "S", "u", "p", "p", "o", "r", "t">>

\* the home dotfile case: ~/.zshrc -> "zsh", ~/.rc -> "rc"
DotfileName(dotName, rcName) == IF rcName = <<>> THEN dotName ELSE rcName

InferFromParts(goos, home, parts) ==
    IF Len(parts) = 0 THEN NoInfer
    ELSE IF parts[1] = DotConfig /\ Len(parts) >= 3
    THEN InferResult(parts[2],
                     contractHome(Join(<<home, DotConfig, parts[2]>>), home),
                     Join(SubSeq(parts, 3, Len(parts))))
    ELSE IF goos = "darwin" /\ parts[1] = Library /\ Len(parts) >= 4
            /\ parts[2] = AppSupport
    THEN InferResult(parts[3],
                     contractHome(Join(<<home, Library, AppSupport, parts[3]>>), home),
                     Join(SubSeq(parts, 4, Len(parts))))
    ELSE IF HasPrefix(parts[1], <<".">>) /\ Len(parts) >= 2
    THEN InferResult(TrimPrefix(parts[1], <<".">>),
                     contractHome(Join(<<home, parts[1]>>), home),
                     Join(SubSeq(parts, 2, Len(parts))))
    ELSE IF HasPrefix(parts[1], <<".">>) /\ Len(parts) = 1
    THEN InferResult(DotfileName(TrimPrefix(parts[1], <<".">>),
                                 TrimSuffix(TrimPrefix(parts[1], <<".">>), <<"r", "c">>)),
                     <<"~">>, parts[1])
    ELSE NoInfer

InferFromAbs(goos, home, absPath) ==
    IF ~HasPrefix(absPath, home) THEN NoInfer
    ELSE InferFromParts(goos, home, Split(Rel(home, absPath)))

InferFromPath(path) == InferFromAbs(GOOS, UserHomeDir, Clean(path))

(***************************************************************************)
(* package manifest.  The persisted manifest is absent, unreadable         *)
(* (a write that failed part-way) or holds entries: name -> [Root, Files]. *)
(***************************************************************************)
NoEntries == [n \in {} |-> 0]

AbsentManifest == [state |-> "absent", Entries |-> NoEntries]

CorruptManifest == [state |-> "corrupt", Entries |-> NoEntries]

New == [state |-> "ok", Entries |-> NoEntries]

Load(man) ==
    IF man.state = "absent" THEN [m |-> New, err |-> "manifest not found"]
    ELSE IF man.state = "corrupt" THEN [m |-> New, err |-> "parsing manifest"]
    ELSE [m |-> man, err |-> ""]

GetEntry(m, name) ==
    IF name \in DOMAIN m.Entries
    THEN [ok |-> TRUE, Root |-> m.Entries[name].Root, Files |-> m.Entries[name].Files]
    ELSE [ok |-> FALSE, Root |-> <<>>, Files |-> <<>>]

HasEntry(m, name) == name \in DOMAIN m.Entries

\* what AddFile returns: true when it appended the file
AddFileAdded(m, name, relPath) ==
    ~(/\ name \in DOMAIN m.Entries
      /\ \E i \in 1..Len(m.Entries[name].Files) : m.Entries[name].Files[i] = relPath)

\* An AddFile that appends without looking at the list.
AddFile_NoLookup(m, name, root, relPath) ==
    LET entry == IF name \in DOMAIN m.Entries THEN m.Entries[name]
                 ELSE [Root |-> root, Files |-> <<>>]
    IN  [m EXCEPT !.Entries =
            [n \in (DOMAIN m.Entries) \cup {name} |->
                IF n = name
                THEN [Root |-> entry.Root, Files |-> Append(entry.Files, relPath)]
                ELSE m.Entries[n]]]

AddFile(m, name, root, relPath) ==
    LET entry == IF name \in DOMAIN m.Entries THEN m.Entries[name]
                 ELSE [Root |-> root, Files |-> <<>>]
    IN  IF \E i \in 1..Len(entry.Files) : entry.Files[i] = relPath
        THEN m
        ELSE [m EXCEPT !.Entries =
                 [n \in (DOMAIN m.Entries) \cup {name} |->
                     IF n = name
                     THEN [Root |-> entry.Root, Files |-> Append(entry.Files, relPath)]
                     ELSE m.Entries[n]]]

\* Save: MkdirAll, then os.WriteFile, which truncates the file before it
\* writes.  Results [fs, inj, now, err, man]: man is what is on disk after.
Save(st, m, onDisk) ==
    LET out(r, e, d) ==
            [fs |-> r.fs, inj |-> r.inj, now |-> r.now, err |-> e, man |-> d]
    IN  UNION { IF k.err # "" THEN {out(k, "creating dotsync directory", onDisk)}
                ELSE {out(k, "", m)}
                     \cup { out(w, "writing manifest", onDisk) : w \in Inject(St(k), "EACCES") }
                     \cup { out(w, "writing manifest", CorruptManifest) :
                                w \in Inject(St(k), "EIO") } :
                k \in OsMkdirAll(st) }

(***************************************************************************)
(* package pathutil (validate.go)                                          *)
(***************************************************************************)
isPlistFile(absPath) ==
    LET prefsDir == Join(<<UserHomeDir, <<"L", "i", "b", "r", "a", "r", "y">>,
                           <<"P", "r", "e", "f", "e", "r", "e", "n", "c", "e", "s">>>>)
    IN  HasPrefix(absPath, prefsDir)
        /\ HasSuffix(absPath, <<".", "p", "l", "i", "s", "t">>)

\* A validation that warns about a path outside home before it looks at
\* what is at the path.
ValidateInfo_WarnFirst(goos, info, absPath) ==
    IF ~IsUnderHome(absPath)
    THEN [Message |-> "file is outside home directory", IsWarn |-> TRUE]
    ELSE IF info.kind = "none" THEN [Message |-> "file not found", IsWarn |-> FALSE]
    ELSE IF info.kind = "link"
    THEN [Message |-> "cannot track symlinks", IsWarn |-> FALSE]
    ELSE IF info.kind = "dir"
    THEN [Message |-> "cannot add directories", IsWarn |-> FALSE]
    ELSE IF goos = "darwin" /\ isPlistFile(absPath)
    THEN [Message |-> "plist files are not supported", IsWarn |-> FALSE]
    ELSE [Message |-> "", IsWarn |-> FALSE]

\* ValidateForAdd on a build for goos, once os.Lstat has returned info.
ValidateInfo(goos, info, absPath) ==
    IF info.kind = "none" THEN [Message |-> "file not found", IsWarn |-> FALSE]
    ELSE IF info.kind = "link"
    THEN [Message |-> "cannot track symlinks", IsWarn |-> FALSE]
    ELSE IF info.kind = "dir"
    THEN [Message |-> "cannot add directories", IsWarn |-> FALSE]
    ELSE IF goos = "darwin" /\ isPlistFile(absPath)
    THEN [Message |-> "plist files are not supported", IsWarn |-> FALSE]
    ELSE IF ~IsUnderHome(absPath)
    THEN [Message |-> "file is outside home directory", IsWarn |-> TRUE]
    ELSE [Message |-> "", IsWarn |-> FALSE]

\* A ValidateForAdd that lets symlinks pass.
ValidateForAdd_AcceptSymlinks(f, absPath) ==
    IF Lstat(f, absPath).kind = "link" THEN [Message |-> "", IsWarn |-> FALSE]
    ELSE ValidateInfo(GOOS, Lstat(f, absPath), absPath)

ValidateForAdd(f, absPath) == ValidateInfo(GOOS, Lstat(f, absPath), absPath)

\* A Go map is ranged over in an unspecified order: an operator that returns
\* from inside such a loop yields the set of the results it can return.
TrackedBy(m, name, absPath) ==
    \E i \in 1..Len(m.Entries[name].Files) :
        Join(<<ExpandHome(m.Entries[name].Root), m.Entries[name].Files[i]>>) = absPath

UnderRoot(m, name, absPath) ==
    LET entryRoot == ExpandHome(m.Entries[name].Root)
    IN  HasPrefix(absPath, entryRoot \o <<Separator>>) \/ absPath = entryRoot

CheckEntryConflict(absPath, explicitName, m) ==
    LET names == DOMAIN m.Entries
        first == { n \in names : UnderRoot(m, n, absPath) \/ TrackedBy(m, n, absPath) }
        decide(n) == IF UnderRoot(m, n, absPath)
                     THEN IF explicitName # <<>> /\ explicitName # n THEN n ELSE <<>>
                     ELSE n
        inferred == InferFromPath(absPath)
        inferredRoot == ExpandHome(inferred.Root)
        overlap == { n \in names :
                       LET entryRoot == ExpandHome(m.Entries[n].Root)
                       IN  HasPrefix(inferredRoot, entryRoot \o <<Separator>>)
                           \/ HasPrefix(entryRoot, inferredRoot \o <<Separator>>) }
    IN  IF first # {} THEN { decide(n) : n \in first }
        ELSE IF inferred.ok /\ explicitName = <<>> /\ overlap # {} THEN overlap
        ELSE {<<>>}

\* An IsAlreadyTracked that finds nothing.
IsAlreadyTracked_Never(absPath, m) == {<<>>}

IsAlreadyTracked(absPath, m) ==
    LET owners == { n \in DOMAIN m.Entries : TrackedBy(m, n, absPath) }
    IN  IF owners # {} THEN owners ELSE {<<>>}

(***************************************************************************)
(* package backup                                                          *)
(***************************************************************************)
BackupDir ==
    Join(<<UserHomeDir, <<".", "c", "a", "c", "h", "e">>, DotSync,
           <<"b", "a", "c", "k", "u", "p", "s">>>>)

\* time.Now(): the clock may have advanced since it was last read.
TimeNow(st) ==
    {st} \cup (IF st.now < MaxNow
               THEN {[fs |-> st.fs, inj |-> st.inj, now |-> st.now + 1]}
               ELSE {})

\* time.Format("20060102-150405"): one name per second.
Timestamp(t) == <<"t", ToString(t)>>

RetB(r, e, b) == [fs |-> r.fs, inj |-> r.inj, now |-> r.now, err |-> e, bk |-> b]

backupCopyFile(st, src, dst) ==
    LET s == Stat(st.fs, src)
    IN  IF s.err # "" THEN {Ret(st, s.err)}
        ELSE Inject(st, "EACCES") \cup OpenCopy(st, s.path, dst)

EnsureBackupDir(st) ==
    { Ret(d, IF d.err # "" THEN "creating backup directory" ELSE "") :
          d \in OsMkdirAll(st) }

BackupCreate(st, originalPath) ==
    UNION { IF d.err # "" THEN {RetB(d, d.err, <<>>)}
            ELSE UNION {
                LET backupFilename == Timestamp(t.now) \o <<"-">> \o Base(originalPath)
                    backupPath == Join(<<BackupDir, backupFilename>>)
                IN  { IF c.err # "" THEN RetB(c, "creating backup", <<>>)
                      ELSE RetB(c, "", backupPath) :
                          c \in backupCopyFile(t, originalPath, backupPath) } :
                t \in TimeNow(St(d)) } :
            d \in EnsureBackupDir(st) }

\* A Restore that deletes the backup file whether the copy worked or not.
Restore_AlwaysRemove(st, b) ==
    UNION { IF m.err # "" THEN {Ret(m, "creating parent directory")}
            ELSE UNION {
                { Ret(x, IF c.err # "" THEN "restoring from backup" ELSE "") :
                      x \in OsRemove(St(c), b.BackupPath) } :
                c \in backupCopyFile(St(m), b.BackupPath, b.OriginalPath) } :
            m \in OsMkdirAll(st) }

Restore(st, b) ==
    UNION { IF m.err # "" THEN {Ret(m, "creating parent directory")}
            ELSE UNION {
                IF c.err # "" THEN {Ret(c, "restoring from backup")}
                ELSE { Ret(x, "") : x \in OsRemove(St(c), b.BackupPath) } :
                c \in backupCopyFile(St(m), b.BackupPath, b.OriginalPath) } :
            m \in OsMkdirAll(st) }

Cleanup(st, b) == OsRemove(st, b.BackupPath)

(***************************************************************************)
(* dotsync add <path> [--name <addName>]                                   *)
(* confirm: the answer to "Continue anyway?"; typed: the answer to         *)
(* "Entry name:".  Results: the state after, the error returned,           *)
(* the step reached, and rb = some rollback step failed (its error is      *)
(* dropped by the code).                                                   *)
(***************************************************************************)
AddOut(r, man, e, stage, rb, n, dest, bk) ==
    [fs |-> r.fs, inj |-> r.inj, now |-> r.now, man |-> man, err |-> e,
     stage |-> stage, rb |-> rb, entry |-> n.entryName, root |-> n.root,
     rel |-> n.relPath, dest |-> dest, bk |-> bk]

Named(e, name, root, relPath) ==
    [err |-> e, entryName |-> name, root |-> root, relPath |-> relPath]

Unnamed(e) == Named(e, <<>>, <<>>, <<>>)

\* Step 6 of runAdd: entry name, root and relative path.
ResolveEntry(absPath, addName, typed, m) ==
    LET inferred == InferFromPath(absPath)
        existing == GetEntry(m, addName)
        expandedRoot == ExpandHome(existing.Root)
        explicit ==
            IF existing.ok
            THEN IF ~HasPrefix(absPath, expandedRoot)
                 THEN Unnamed("file is not under existing entry root")
                 ELSE Named("", addName, existing.Root, Rel(expandedRoot, absPath))
            ELSE IF inferred.ok
            THEN Named("", addName, inferred.Root, inferred.RelPath)
            ELSE Named("", addName, ContractHome(Dir(absPath)), Base(absPath))
        found == GetEntry(m, inferred.Name)
        implicit ==
            IF inferred.ok
            THEN IF found.ok /\ found.Root # inferred.Root
                 THEN Unnamed("entry exists with different root")
                 ELSE Named("", inferred.Name, inferred.Root, inferred.RelPath)
            ELSE IF typed = <<>> THEN Unnamed("entry name is required")
            ELSE Named("", typed, ContractHome(Dir(absPath)), Base(absPath))
    IN  IF addName # <<>>
        THEN { IF conflict # <<>> /\ conflict # addName
               THEN Unnamed("file is under entry")
               ELSE explicit :
                   conflict \in CheckEntryConflict(absPath, addName, m) }
        ELSE IF implicit.err # "" THEN {implicit}
        ELSE { IF conflict # <<>> /\ conflict # implicit.entryName
               THEN Unnamed("file is under entry")
               ELSE implicit :
                   conflict \in CheckEntryConflict(absPath, <<>>, m) }

\* Steps 8 to 12 of runAdd: backup, move, symlink, manifest, cleanup.
AddTransaction(st, onDisk, m, absPath, n, destPath) ==
    LET bkOf(b) == [OriginalPath |-> absPath, BackupPath |-> b.bk]
        saved(b, sv) ==
            IF sv.err = ""
            THEN { AddOut(c, sv.man, "", "done", FALSE, n, destPath, b.bk) :
                       c \in Cleanup(St(sv), bkOf(b)) }
            ELSE UNION { UNION { { AddOut(z, sv.man, "saving manifest", "save",
                                          x.err # "" \/ y.err # "" \/ z.err # "",
                                          n, destPath, b.bk) :
                                       z \in Restore(St(y), bkOf(b)) } :
                                 y \in MoveFile(St(x), destPath, absPath) } :
                         x \in Remove(St(sv), absPath) }
        linked(b, sl) ==
            IF sl.err = ""
            THEN UNION { saved(b, sv) :
                         sv \in Save(St(sl), AddFile(m, n.entryName, n.root, n.relPath),
                                     onDisk) }
            ELSE UNION { { AddOut(z, onDisk, "creating symlink", "symlink",
                                  y.err # "" \/ z.err # "", n, destPath, b.bk) :
                               z \in Restore(St(y), bkOf(b)) } :
                         y \in MoveFile(St(sl), destPath, absPath) }
        moved(b, mv) ==
            IF mv.err = ""
            THEN UNION { linked(b, sl) : sl \in Create(St(mv), absPath, destPath) }
            ELSE { AddOut(z, onDisk, "moving file", "move", z.err # "",
                          n, destPath, b.bk) :
                       z \in Restore(St(mv), bkOf(b)) }
    IN  UNION { IF b.err # ""
                THEN {AddOut(b, onDisk, "creating backup", "backup", FALSE,
                             n, destPath, <<>>)}
                ELSE UNION { moved(b, mv) : mv \in MoveFile(St(b), absPath, destPath) } :
                b \in BackupCreate(st, absPath) }

\* A runAdd that moves the file although backup.Create failed.
runAdd_MoveUnbacked(f, onDisk, t, k, inputPath, addName, confirm, typed) ==
    LET st == [fs |-> f, inj |-> k, now |-> t]
        absPath == AbsolutePath(inputPath)
        valErr == ValidateForAdd(f, absPath)
        loaded == Load(onDisk)
        m == loaded.m
        stop(e, stage) == AddOut(st, onDisk, e, stage, FALSE, Unnamed(""), <<>>, <<>>)
        unbacked(n, destPath, r) ==
            IF r.stage # "backup" THEN {r}
            ELSE { AddOut(mv, onDisk, r.err, "backup", FALSE, n, destPath, <<>>) :
                       mv \in MoveFile(St(r), absPath, destPath) }
        place(n) ==
            LET destPath == Join(<<StoragePath, DotSync, n.entryName, n.relPath>>)
            IN  IF Stat(f, destPath).err = ""
                THEN {AddOut(st, onDisk, "file already exists in cloud storage",
                             "exists", FALSE, n, destPath, <<>>)}
                ELSE UNION { unbacked(n, destPath, r) :
                             r \in AddTransaction(st, onDisk, m, absPath, n, destPath) }
    IN  IF valErr.Message # "" /\ ~valErr.IsWarn THEN {stop(valErr.Message, "validate")}
        ELSE IF valErr.Message # "" /\ ~confirm THEN {stop("aborted", "validate")}
        ELSE IF loaded.err # "" /\ loaded.err # "manifest not found"
        THEN {stop("loading manifest", "load")}
        ELSE UNION {
            IF owner # <<>> THEN {stop("", "tracked")}
            ELSE UNION { IF n.err # "" THEN {stop(n.err, "resolve")} ELSE place(n) :
                         n \in ResolveEntry(absPath, addName, typed, m) } :
            owner \in IsAlreadyTracked(absPath, m) }

\* A runAdd that does not look whether the destination exists.
runAdd_Overwrite(f, onDisk, t, k, inputPath, addName, confirm, typed) ==
    LET st == [fs |-> f, inj |-> k, now |-> t]
        absPath == AbsolutePath(inputPath)
        valErr == ValidateForAdd(f, absPath)
        loaded == Load(onDisk)
        m == loaded.m
        stop(e, stage) == AddOut(st, onDisk, e, stage, FALSE, Unnamed(""), <<>>, <<>>)
        place(n) ==
            AddTransaction(st, onDisk, m, absPath, n,
                           Join(<<StoragePath, DotSync, n.entryName, n.relPath>>))
    IN  IF valErr.Message # "" /\ ~valErr.IsWarn THEN {stop(valErr.Message, "validate")}
        ELSE IF valErr.Message # "" /\ ~confirm THEN {stop("aborted", "validate")}
        ELSE IF loaded.err # "" /\ loaded.err # "manifest not found"
        THEN {stop("loading manifest", "load")}
        ELSE UNION {
            IF owner # <<>> THEN {stop("", "tracked")}
            ELSE UNION { IF n.err # "" THEN {stop(n.err, "resolve")} ELSE place(n) :
                         n \in ResolveEntry(absPath, addName, typed, m) } :
            owner \in IsAlreadyTracked(absPath, m) }

runAdd(f, onDisk, t, k, inputPath, addName, confirm, typed) ==
    LET st == [fs |-> f, inj |-> k, now |-> t]
        absPath == AbsolutePath(inputPath)
        valErr == ValidateForAdd(f, absPath)
        loaded == Load(onDisk)
        m == loaded.m
        stop(e, stage) == AddOut(st, onDisk, e, stage, FALSE, Unnamed(""), <<>>, <<>>)
        place(n) ==
            LET destPath == Join(<<StoragePath, DotSync, n.entryName, n.relPath>>)
            IN  IF Stat(f, destPath).err = ""
                THEN {AddOut(st, onDisk, "file already exists in cloud storage",
                             "exists", FALSE, n, destPath, <<>>)}
                ELSE AddTransaction(st, onDisk, m, absPath, n, destPath)
    IN  IF valErr.Message # "" /\ ~valErr.IsWarn THEN {stop(valErr.Message, "validate")}
        ELSE IF valErr.Message # "" /\ ~confirm THEN {stop("aborted", "validate")}
        ELSE IF loaded.err # "" /\ loaded.err # "manifest not found"
        THEN {stop("loading manifest", "load")}
        ELSE UNION {
            IF owner # <<>> THEN {stop("", "tracked")}
            ELSE UNION { IF n.err # "" THEN {stop(n.err, "resolve")} ELSE place(n) :
                         n \in ResolveEntry(absPath, addName, typed, m) } :
            owner \in IsAlreadyTracked(absPath, m) }

(***************************************************************************)
(* The files of the model.                                                 *)
(***************************************************************************)
F1 == Join(<<UserHomeDir, DotConfig, <<"a">>, <<"f">>>>)

F2 == Join(<<UserHomeDir, DotConfig, <<"a">>, <<"g">>>>)

F3 == Join(<<UserHomeDir, DotConfig, <<"b">>, <<"f">>>>)

\* A dotfile in the home directory, and a file from whose path no entry
\* can be inferred.
F4 == Join(<<UserHomeDir, <<".", "b">>>>)

Other == Join(<<UserHomeDir, <<"x">>>>)

\* A dotfile in a directory next to home whose name begins with home's.
Sibling == <<"/", "h", "x", "/", ".", "b">>

\* A file outside the home directory.
Outside == <<"/", "e", "/", "f">>

AddPaths == {F1, F2, F3}

AddNames == {<<>>, <<"a">>}

LocalFiles ==
    [p \in AddPaths |->
        IF p = F1 THEN FileNode("d1", "0644")
        ELSE IF p = F2 THEN FileNode("d2", "0600")
        ELSE FileNode("d3", "0644")]

(***************************************************************************)
(* Specification SpecAdd: a machine with local files and an empty storage, *)
(* on which dotsync add runs up to MaxCmds times.                          *)
(***************************************************************************)
InitAdd ==
    /\ fs = LocalFiles
    /\ manifest = AbsentManifest
    /\ now = 0
    /\ inj = MaxFaults
    /\ steps = 0
    /\ last = [op |-> "init"]

Add ==
    /\ steps < MaxCmds
    /\ \E inputPath \in AddPaths, addName \in AddNames :
           \E r \in runAdd(fs, manifest, now, inj, inputPath, addName, TRUE, <<>>) :
               /\ fs' = r.fs
               /\ manifest' = r.man
               /\ now' = r.now
               /\ inj' = r.inj
               /\ steps' = steps + 1
               /\ last' = [op |-> "add", path |-> AbsolutePath(inputPath),
                           prefs |-> fs, preman |-> manifest,
                           err |-> r.err, stage |-> r.stage, rb |-> r.rb,
                           entry |-> r.entry, rel |-> r.rel, dest |-> r.dest,
                           bk |-> r.bk]

NextAdd == Add

SpecAdd == InitAdd /\ [][NextAdd]_vars

(***************************************************************************)
(* Specification SpecHome: a home directory with config files, a dotfile   *)
(* and a plain file, on which dotsync add runs up to MaxCmds times with    *)
(* inferred names, with --name, and with names typed at the prompt.        *)
(***************************************************************************)
HomePaths == {F1, F4, Other, Outside}

\* --name: not given, a plain name, a name with a path separator
HomeNames == {<<>>, <<"a">>, <<"a", "/", "b">>}

\* what the user types when asked for a name
TypedNames == {<<>>, <<"b">>, <<".", ".">>}

HomeFiles ==
    [p \in HomePaths |->
        IF p = F1 THEN FileNode("d1", "0644")
        ELSE IF p = F4 THEN FileNode("d4", "0644")
        ELSE IF p = Outside THEN FileNode("out", "0644")
        ELSE FileNode("other", "0644")]

\* A second machine: the storage already holds the manifest and the file
\* of an entry that was added elsewhere, and the machine has its own
\* regular file at that entry's path.
SyncedManifest == AddFile(New, <<"b">>, <<"~">>, <<"x">>)

SyncedFiles ==
    Put(HomeFiles, Join(<<StoragePath, DotSync, <<"b">>, <<"x">>>>),
        FileNode("theirs", "0644"))

InitHome ==
    /\ \/ fs = HomeFiles /\ manifest = AbsentManifest
       \/ fs = SyncedFiles /\ manifest = SyncedManifest
    /\ now = 0
    /\ inj = MaxHomeFaults
    /\ steps = 0
    /\ last = [op |-> "init"]

\* runAdd reads a line from the terminal only when no name was given and
\* none can be inferred.
AddPrompts(inputPath, addName) ==
    addName = <<>> /\ ~InferFromPath(AbsolutePath(inputPath)).ok

\* The user answers no when asked whether to continue after a warning.
Confirms(inputPath) == IsUnderHome(AbsolutePath(inputPath))

AddFrom(paths, names) ==
    /\ steps < MaxCmds
    /\ \E inputPath \in paths, addName \in names :
         \E typed \in IF AddPrompts(inputPath, addName) THEN TypedNames ELSE {<<>>} :
           \E r \in runAdd(fs, manifest, now, inj, inputPath, addName,
                           Confirms(inputPath), typed) :
               /\ fs' = r.fs
               /\ manifest' = r.man
               /\ now' = r.now
               /\ inj' = r.inj
               /\ steps' = steps + 1
               /\ last' = [op |-> "add", path |-> AbsolutePath(inputPath),
                           name |-> addName, typed |-> typed,
                           prefs |-> fs, preman |-> manifest, inj0 |-> inj,
                           err |-> r.err, stage |-> r.stage, rb |-> r.rb,
                           entry |-> r.entry, rel |-> r.rel, dest |-> r.dest,
                           bk |-> r.bk]

AddHome == AddFrom(HomePaths, HomeNames)

NextHome == AddHome

SpecHome == InitHome /\ [][NextHome]_vars

(***************************************************************************)
(* Specification SpecConflict: CheckEntryConflict applied to a path and a  *)
(* name on the manifests that dotsync add writes when no call fails.       *)
(***************************************************************************)
ConflictPaths == {F1, F2, F3, F4, Other}

ConflictNames == {<<>>, <<"a">>, <<"b">>}

InitConflict ==
    /\ fs = Put(HomeFiles, Sibling, FileNode("sib", "0644"))
    /\ manifest = AbsentManifest
    /\ now = 0
    /\ inj = 0
    /\ steps = 0
    /\ last = [op |-> "init"]

AddNamed == AddFrom(HomePaths \cup {Sibling}, ConflictNames)

Conflict ==
    /\ Load(manifest).err = ""
    /\ \E absPath \in ConflictPaths, explicitName \in ConflictNames :
           \E c \in CheckEntryConflict(absPath, explicitName, Load(manifest).m) :
               last' = [op |-> "conflict", absPath |-> absPath,
                        explicitName |-> explicitName, m |-> Load(manifest).m,
                        result |-> c]
    /\ UNCHANGED <<fs, manifest, now, inj, steps>>

NextConflict == AddNamed \/ Conflict

SpecConflict == InitConflict /\ [][NextConflict]_vars

(***************************************************************************)
(* Specification SpecBackup: a file in a directory with a sibling.  The    *)
(* file is backed up, then overwritten, deleted or left without its        *)
(* directory, then restored, any number of times, while up to MaxFaults    *)
(* calls fail.                                                             *)
(***************************************************************************)
BackupModes == {"0644", "0600"}

BackupData == {"d1", "d2"}

InitBackup ==
    /\ \E d \in BackupData, m \in BackupModes :
           fs = [p \in {F1, F2} |-> IF p = F1 THEN FileNode(d, m)
                                    ELSE FileNode("d2", "0600")]
    /\ manifest = New
    /\ now = 0
    /\ inj = MaxFaults
    /\ steps = 0
    /\ last = [op |-> "init", bk |-> <<>>, node |-> NoNode, err |-> "",
               had |-> FALSE]

\* backup.Create(F1)
BackupFile ==
    /\ \E r \in BackupCreate([fs |-> fs, inj |-> inj, now |-> now], F1) :
           /\ fs' = r.fs
           /\ inj' = r.inj
           /\ now' = r.now
           /\ last' = [op |-> "create", bk |-> r.bk, node |-> Lstat(fs, F1),
                       err |-> r.err, had |-> FALSE]
    /\ UNCHANGED <<manifest, steps>>

\* os.WriteFile on the existing file: new bytes, same permission bits
OverwriteFile ==
    /\ Lstat(fs, F1).kind = "file"
    /\ \E d \in BackupData : fs' = Put(fs, F1, FileNode(d, fs[F1].mode))
    /\ last' = [last EXCEPT !.op = "write"]
    /\ UNCHANGED <<manifest, now, inj, steps>>

\* os.Remove on the file
DeleteFile ==
    /\ F1 \in DOMAIN fs
    /\ fs' = Del(fs, F1)
    /\ last' = [last EXCEPT !.op = "delete"]
    /\ UNCHANGED <<manifest, now, inj, steps>>

\* os.RemoveAll on the directory of the file
RemoveParent ==
    /\ \E p \in DOMAIN fs : Dir(p) = Dir(F1)
    /\ fs' = [p \in {q \in DOMAIN fs : Dir(q) # Dir(F1)} |-> fs[p]]
    /\ last' = [last EXCEPT !.op = "rmdir"]
    /\ UNCHANGED <<manifest, now, inj, steps>>

\* Restore() on the backup that the last successful Create returned;
\* had: the backup file was there when Restore was called
RestoreFile ==
    /\ last.bk # <<>>
    /\ \E r \in Restore([fs |-> fs, inj |-> inj, now |-> now],
                         [OriginalPath |-> F1, BackupPath |-> last.bk]) :
           /\ fs' = r.fs
           /\ inj' = r.inj
           /\ now' = r.now
           /\ last' = [last EXCEPT !.op = "restore", !.err = r.err,
                                    !.had = last.bk \in DOMAIN fs]
    /\ UNCHANGED <<manifest, steps>>

NextBackup ==
    BackupFile \/ OverwriteFile \/ DeleteFile \/ RemoveParent \/ RestoreFile

SpecBackup == InitBackup /\ [][NextBackup]_vars

(***************************************************************************)
(* Specification SpecManifest: Manifest.AddFile called on a manifest in    *)
(* memory, any number of times.                                            *)
(***************************************************************************)
FileNames == {<<"a">>, <<"b">>}

FileRoots == {<<"~">>, <<"~", "/">> \o DotConfig \o <<"/", "a">>}

FileRels == {<<"f">>, <<"g">>, <<"s", "/", "h">>}

InitManifest ==
    /\ fs = [q \in {} |-> NoNode]
    /\ manifest = New
    /\ now = 0
    /\ inj = 0
    /\ steps = 0
    /\ last = [op |-> "init"]

AddFileCall ==
    /\ \E name \in FileNames, root \in FileRoots, relPath \in FileRels :
           /\ manifest' = AddFile(manifest, name, root, relPath)
           /\ last' = [op |-> "addfile", m |-> manifest, name |-> name,
                       root |-> root, relPath |-> relPath,
                       added |-> AddFileAdded(manifest, name, relPath)]
    /\ UNCHANGED <<fs, now, inj, steps>>

NextManifest == AddFileCall

SpecManifest == InitManifest /\ [][NextManifest]_vars

(***************************************************************************)
(* Specification SpecPath: ValidateForAdd, IsUnderHome and InferFromPath   *)
(* applied to one path, with nothing, a file, a symlink or a directory at  *)
(* it, on a build for either platform.                                     *)
(***************************************************************************)
PathInputs ==
    {UserHomeDir, F1, F4, Other, Sibling, Outside,
     Join(<<UserHomeDir, <<".", "z", "s", "h", "r", "c">>>>),
     Join(<<UserHomeDir, <<".", "r", "c">>>>),
     Join(<<UserHomeDir, <<".", "d">>, <<"f">>>>),
     Join(<<UserHomeDir, DotConfig, <<"a">>>>),
     Join(<<UserHomeDir, Library, AppSupport, <<"a">>, <<"f">>>>),
     Join(<<UserHomeDir, Library,
            <<"P", "r", "e", "f", "e", "r", "e", "n", "c", "e", "s">>,
            <<"p", ".", "p", "l", "i", "s", "t">>>>)}

PathNodes == {NoNode, FileNode("d", "0644"), LinkNode(Other), DirNode}

Platforms == {"linux", "darwin"}

InitPath ==
    /\ \E p \in PathInputs, node \in PathNodes :
           /\ fs = [q \in (IF node = NoNode THEN {} ELSE {p}) |-> node]
           /\ last = [op |-> "init", path |-> p]
    /\ manifest = AbsentManifest
    /\ now = 0
    /\ inj = 0
    /\ steps = 0

Validate ==
    /\ \E goos \in Platforms :
           last' = [op |-> "validate", path |-> last.path, goos |-> goos,
                    info |-> Lstat(fs, last.path),
                    res |-> ValidateInfo(goos, Lstat(fs, last.path), last.path)]
    /\ UNCHANGED <<fs, manifest, now, inj, steps>>

UnderHome ==
    /\ last' = [op |-> "underhome", path |-> last.path,
                res |-> IsUnderHome(last.path)]
    /\ UNCHANGED <<fs, manifest, now, inj, steps>>

Infer ==
    /\ \E goos \in Platforms :
           last' = [op |-> "infer", path |-> last.path, goos |-> goos,
                    res |-> InferFromAbs(goos, UserHomeDir, Clean(last.path))]
    /\ UNCHANGED <<fs, manifest, now, inj, steps>>

NextPath == Validate \/ UnderHome \/ Infer

SpecPath == InitPath /\ [][NextPath]_vars

(***************************************************************************)
(* dotsync link [entry] [--backup]                                         *)
(***************************************************************************)
linkResultLinked == "linked"
linkResultSkipped == "skipped"
linkResultAlreadyLinked == "already linked"
linkResultAborted == "aborted"
linkResultFailed == "failed"

conflictBackup == "backup"
conflictSkip == "skip"
conflictAbort == "abort"

ToLower(s) ==
    [i \in 1..Len(s) |->
        IF s[i] = "A" THEN "a" ELSE IF s[i] = "B" THEN "b"
        ELSE IF s[i] = "S" THEN "s" ELSE s[i]]

IsSpace(c) == c \in {" ", "\n", "\t", "\r"}

RECURSIVE TrimSpace(_)
TrimSpace(s) ==
    IF s # <<>> /\ IsSpace(s[1]) THEN TrimSpace(Tail(s))
    ELSE IF s # <<>> /\ IsSpace(s[Len(s)]) THEN TrimSpace(SubSeq(s, 1, Len(s) - 1))
    ELSE s

\* A promptConflictAction that takes an unknown answer for "backup".
promptConflictAction_DefaultBackup(autoBackup, input) ==
    LET response == TrimSpace(ToLower(input))
    IN  IF autoBackup THEN conflictBackup
        ELSE IF response \in {<<"s">>, <<"s", "k", "i", "p">>} THEN conflictSkip
        ELSE IF response \in {<<"a">>, <<"a", "b", "o", "r", "t">>} THEN conflictAbort
        ELSE conflictBackup

\* input: the line read from the terminal (not read when autoBackup is set)
promptConflictAction(autoBackup, input) ==
    LET response == TrimSpace(ToLower(input))
    IN  IF autoBackup THEN conflictBackup
        ELSE IF response \in {<<"b">>, <<"b", "a", "c", "k", "u", "p">>}
        THEN conflictBackup
        ELSE IF response \in {<<"s">>, <<"s", "k", "i", "p">>} THEN conflictSkip
        ELSE IF response \in {<<"a">>, <<"a", "b", "o", "r", "t">>} THEN conflictAbort
        ELSE conflictSkip

\* Results of linkFile and unlinkFile: the state after, the result, the
\* error, the conflict action taken (if any), the backup taken (if any),
\* and rb = a rollback step failed (its error is dropped by the code).
FileOut(r, res, e, action, bk, rb) ==
    [fs |-> r.fs, inj |-> r.inj, now |-> r.now, result |-> res, err |-> e,
     action |-> action, bk |-> bk, rb |-> rb]

\* A handleConflict that replaces the existing file without backing it up.
handleConflict_NoBackup(st, originalPath, cloudPath, action) ==
    LET created(c) ==
            {FileOut(c, IF c.err # "" THEN linkResultFailed ELSE linkResultLinked,
                     c.err, action, <<>>, FALSE)}
    IN  IF action = conflictBackup
        THEN UNION { IF x.err # ""
                     THEN {FileOut(x, linkResultFailed, "removing existing file",
                                   action, <<>>, FALSE)}
                     ELSE UNION { created(c) :
                                  c \in Create(St(x), originalPath, cloudPath) } :
                     x \in OsRemove(st, originalPath) }
        ELSE IF action = conflictAbort
        THEN {FileOut(st, linkResultAborted, "", action, <<>>, FALSE)}
        ELSE {FileOut(st, linkResultSkipped, "", action, <<>>, FALSE)}

handleConflict(st, originalPath, cloudPath, action) ==
    LET bkOf(b) == [OriginalPath |-> originalPath, BackupPath |-> b.bk]
        restored(b, x, e) ==
            { FileOut(z, linkResultFailed, e, action, b.bk, z.err # "") :
                  z \in Restore(St(x), bkOf(b)) }
        created(b, c) ==
            IF c.err # "" THEN restored(b, c, c.err)
            ELSE {FileOut(c, linkResultLinked, "", action, b.bk, FALSE)}
        removed(b, x) ==
            IF x.err # "" THEN restored(b, x, "removing existing file")
            ELSE UNION { created(b, c) : c \in Create(St(x), originalPath, cloudPath) }
    IN  IF action = conflictBackup
        THEN UNION { IF b.err # ""
                     THEN {FileOut(b, linkResultFailed, "creating backup", action,
                                   <<>>, FALSE)}
                     ELSE UNION { removed(b, x) : x \in OsRemove(St(b), originalPath) } :
                     b \in BackupCreate(st, originalPath) }
        ELSE IF action = conflictSkip
        THEN {FileOut(st, linkResultSkipped, "", action, <<>>, FALSE)}
        ELSE IF action = conflictAbort
        THEN {FileOut(st, linkResultAborted, "", action, <<>>, FALSE)}
        ELSE {FileOut(st, linkResultSkipped, "", action, <<>>, FALSE)}

\* A linkFile that does not look whether the cloud copy is there.
linkFile_NoCloudCheck(st, originalPath, cloudPath, autoBackup, input) ==
    LET chk == Check(st.fs, originalPath, cloudPath)
        status == chk.status
        out(r, res, e) == FileOut(r, res, e, "", <<>>, FALSE)
        action == promptConflictAction(autoBackup, input)
    IN  IF chk.err # "" THEN {out(st, linkResultFailed, chk.err)}
        ELSE IF status = StatusLinked THEN {out(st, linkResultAlreadyLinked, "")}
        ELSE IF status = StatusNotExist
        THEN { out(c, IF c.err # "" THEN linkResultFailed ELSE linkResultLinked, c.err) :
                   c \in Create(st, originalPath, cloudPath) }
        ELSE IF status = StatusBroken
        THEN UNION { IF x.err # ""
                     THEN {out(x, linkResultFailed, "removing broken symlink")}
                     ELSE { out(c, IF c.err # "" THEN linkResultFailed
                                   ELSE linkResultLinked, c.err) :
                                c \in Create(St(x), originalPath, cloudPath) } :
                     x \in Remove(st, originalPath) }
        ELSE handleConflict(st, originalPath, cloudPath, action)

\* A linkFile that has no case for StatusLinked and so treats a correct
\* symlink like a stale one: removes it, creates it again, reports linked.
linkFile_Relink(st, originalPath, cloudPath, autoBackup, input) ==
    LET chk == Check(st.fs, originalPath, cloudPath)
        status == chk.status
        out(r, res, e) == FileOut(r, res, e, "", <<>>, FALSE)
        action == promptConflictAction(autoBackup, input)
    IN  IF Stat(st.fs, cloudPath).err = "ENOENT"
        THEN {out(st, linkResultFailed, "source file not found in cloud storage")}
        ELSE IF chk.err # "" THEN {out(st, linkResultFailed, chk.err)}
        ELSE IF status = StatusNotExist
        THEN { out(c, IF c.err # "" THEN linkResultFailed ELSE linkResultLinked, c.err) :
                   c \in Create(st, originalPath, cloudPath) }
        ELSE IF status \in {StatusBroken, StatusLinked}
        THEN UNION { IF x.err # ""
                     THEN {out(x, linkResultFailed, "removing broken symlink")}
                     ELSE { out(c, IF c.err # "" THEN linkResultFailed
                                   ELSE linkResultLinked, c.err) :
                                c \in Create(St(x), originalPath, cloudPath) } :
                     x \in Remove(st, originalPath) }
        ELSE handleConflict(st, originalPath, cloudPath, action)

linkFile(st, originalPath, cloudPath, autoBackup, input) ==
    LET chk == Check(st.fs, originalPath, cloudPath)
        status == chk.status
        out(r, res, e) == FileOut(r, res, e, "", <<>>, FALSE)
        action == promptConflictAction(autoBackup, input)
    IN  IF Stat(st.fs, cloudPath).err = "ENOENT"
        THEN {out(st, linkResultFailed, "source file not found in cloud storage")}
        ELSE IF chk.err # "" THEN {out(st, linkResultFailed, chk.err)}
        ELSE IF status = StatusLinked THEN {out(st, linkResultAlreadyLinked, "")}
        ELSE IF status = StatusNotExist
        THEN { out(c, IF c.err # "" THEN linkResultFailed ELSE linkResultLinked, c.err) :
                   c \in Create(st, originalPath, cloudPath) }
        ELSE IF status = StatusBroken
        THEN UNION { IF x.err # ""
                     THEN {out(x, linkResultFailed, "removing broken symlink")}
                     ELSE { out(c, IF c.err # "" THEN linkResultFailed
                                   ELSE linkResultLinked, c.err) :
                                c \in Create(St(x), originalPath, cloudPath) } :
                     x \in Remove(st, originalPath) }
        ELSE IF status = StatusIncorrect
        THEN handleConflict(st, originalPath, cloudPath, action)
        ELSE IF status = StatusNotLinked
        THEN handleConflict(st, originalPath, cloudPath, action)
        ELSE {out(st, linkResultFailed, "unexpected symlink status")}

\* The lines the user may type at the conflict prompt.
Inputs == {<<"b">>, <<"s">>, <<"a">>, <<>>}

\* The files of the selected entries, in the order one run processes them:
\* the entries in any order (a Go map), each entry's files in stored order.
FilesOf(m, name) ==
    [i \in 1..Len(m.Entries[name].Files) |->
        [name |-> name, relPath |-> m.Entries[name].Files[i],
         originalPath |-> Join(<<ExpandHome(m.Entries[name].Root),
                                 m.Entries[name].Files[i]>>),
         cloudPath |-> Join(<<StoragePath, DotSync, name,
                              m.Entries[name].Files[i]>>)]]

RECURSIVE Orders(_)
Orders(S) ==
    IF S = {} THEN {<<>>}
    ELSE UNION { { <<n>> \o o : o \in Orders(S \ {n}) } : n \in S }

RECURSIVE Flatten(_, _)
Flatten(m, order) ==
    IF order = <<>> THEN <<>>
    ELSE FilesOf(m, Head(order)) \o Flatten(m, Tail(order))

RunOrders(m, selected) == { Flatten(m, o) : o \in Orders(selected) }

\* What is recorded of one call of linkFile / unlinkFile: the file, the
\* state it was called in (before, inj0), what it returned and the state
\* it returned in (after, inj).
Seen(file, st, r) ==
    [name |-> file.name, relPath |-> file.relPath,
     originalPath |-> file.originalPath, cloudPath |-> file.cloudPath,
     before |-> st.fs, inj0 |-> st.inj,
     result |-> r.result, err |-> r.err, action |-> r.action, rb |-> r.rb,
     bk |-> r.bk, after |-> r.fs, inj |-> r.inj]

\* linkFile reads a line from the terminal only when it reaches the prompt.
Prompts(f, file, autoBackup) ==
    /\ ~autoBackup
    /\ Stat(f, file.cloudPath).err # "ENOENT"
    /\ Check(f, file.originalPath, file.cloudPath).err = ""
    /\ Check(f, file.originalPath, file.cloudPath).status
           \in {StatusIncorrect, StatusNotLinked}

\* A loop over the files that returns at the first file that failed.
RECURSIVE LinkFiles_StopOnFailure(_, _, _)
LinkFiles_StopOnFailure(acc, files, autoBackup) ==
    IF files = <<>> THEN {acc}
    ELSE LET file == Head(files)
             st == [fs |-> acc.fs, inj |-> acc.inj, now |-> acc.now]
             step(r) ==
                 [fs |-> r.fs, inj |-> r.inj, now |-> r.now, man |-> acc.man,
                  linked |-> acc.linked + (IF r.result = linkResultLinked THEN 1 ELSE 0),
                  skipped |-> acc.skipped + (IF r.result = linkResultSkipped THEN 1 ELSE 0),
                  failed |-> acc.failed + (IF r.result = linkResultFailed THEN 1 ELSE 0),
                  files |-> acc.files,
                  log |-> Append(acc.log, Seen(file, st, r)),
                  err |-> IF r.result = linkResultAborted THEN "aborted" ELSE ""]
         IN  UNION { UNION { IF r.result \in {linkResultAborted, linkResultFailed}
                             THEN {step(r)}
                             ELSE LinkFiles_StopOnFailure(step(r), Tail(files),
                                                          autoBackup) :
                             r \in linkFile(st, file.originalPath, file.cloudPath,
                                            autoBackup, input) } :
                     input \in IF Prompts(acc.fs, file, autoBackup) THEN Inputs
                               ELSE {<<>>} }

\* A loop over the files that treats an abort like a skip of that file.
RECURSIVE LinkFiles_ContinueAfterAbort(_, _, _)
LinkFiles_ContinueAfterAbort(acc, files, autoBackup) ==
    IF files = <<>> THEN {acc}
    ELSE LET file == Head(files)
             st == [fs |-> acc.fs, inj |-> acc.inj, now |-> acc.now]
             step(r) ==
                 [fs |-> r.fs, inj |-> r.inj, now |-> r.now, man |-> acc.man,
                  linked |-> acc.linked + (IF r.result = linkResultLinked THEN 1 ELSE 0),
                  skipped |-> acc.skipped + (IF r.result = linkResultSkipped THEN 1 ELSE 0),
                  failed |-> acc.failed + (IF r.result = linkResultFailed THEN 1 ELSE 0),
                  files |-> acc.files,
                  log |-> Append(acc.log, Seen(file, st, r)),
                  err |-> IF r.result = linkResultAborted THEN "aborted" ELSE acc.err]
         IN  UNION { UNION { LinkFiles_ContinueAfterAbort(step(r), Tail(files),
                                                          autoBackup) :
                             r \in linkFile(st, file.originalPath, file.cloudPath,
                                            autoBackup, input) } :
                     input \in IF Prompts(acc.fs, file, autoBackup) THEN Inputs
                               ELSE {<<>>} }

RECURSIVE LinkFiles(_, _, _)
LinkFiles(acc, files, autoBackup) ==
    IF files = <<>> THEN {acc}
    ELSE LET file == Head(files)
             st == [fs |-> acc.fs, inj |-> acc.inj, now |-> acc.now]
             step(r) ==
                 [fs |-> r.fs, inj |-> r.inj, now |-> r.now, man |-> acc.man,
                  linked |-> acc.linked + (IF r.result = linkResultLinked THEN 1 ELSE 0),
                  skipped |-> acc.skipped + (IF r.result = linkResultSkipped THEN 1 ELSE 0),
                  failed |-> acc.failed + (IF r.result = linkResultFailed THEN 1 ELSE 0),
                  files |-> acc.files,
                  log |-> Append(acc.log, Seen(file, st, r)),
                  err |-> IF r.result = linkResultAborted THEN "aborted" ELSE ""]
         IN  UNION { UNION { IF r.result = linkResultAborted THEN {step(r)}
                             ELSE LinkFiles(step(r), Tail(files), autoBackup) :
                             r \in linkFile(st, file.originalPath, file.cloudPath,
                                            autoBackup, input) } :
                     input \in IF Prompts(acc.fs, file, autoBackup) THEN Inputs
                               ELSE {<<>>} }

RunStart(f, onDisk, t, k) ==
    [fs |-> f, inj |-> k, now |-> t, man |-> onDisk,
     linked |-> 0, skipped |-> 0, failed |-> 0, files |-> <<>>, log |-> <<>>,
     err |-> ""]

\* args: <<>> or <<entryName>>
runLink(f, onDisk, t, k, args, autoBackup) ==
    LET loaded == Load(onDisk)
        m == loaded.m
        start == RunStart(f, onDisk, t, k)
        stop(e) == {[start EXCEPT !.err = e]}
        selected == IF Len(args) > 0 THEN {args[1]} ELSE DOMAIN m.Entries
        finish(r) ==
            IF r.err = "" /\ r.failed > 0
            THEN [r EXCEPT !.err = "some files failed to link"]
            ELSE r
    IN  IF loaded.err = "manifest not found" THEN stop("no manifest found")
        ELSE IF loaded.err # "" THEN stop("loading manifest")
        ELSE IF DOMAIN m.Entries = {} THEN stop("")
        ELSE IF Len(args) > 0 /\ ~GetEntry(m, args[1]).ok THEN stop("entry not found")
        ELSE { finish(r) :
                   r \in UNION { LinkFiles([start EXCEPT !.files = files], files,
                                           autoBackup) :
                                 files \in RunOrders(m, selected) } }

(***************************************************************************)
(* dotsync unlink [entry]                                                  *)
(***************************************************************************)
unlinkResultUnlinked == "unlinked"
unlinkResultSkipped == "skipped"
unlinkResultNotExist == "not exist"
unlinkResultFailed == "failed"

\* A doUnlink that moves the cloud file back instead of copying it.
doUnlink_Move(st, originalPath, cloudPath) ==
    LET out(r, res, e, rb) == FileOut(r, res, e, "", <<>>, rb)
    IN  UNION { IF x.err # ""
                THEN {out(x, unlinkResultFailed, "removing symlink", FALSE)}
                ELSE { IF c.err = "" THEN out(c, unlinkResultUnlinked, "", FALSE)
                       ELSE out(c, unlinkResultFailed, "copying file", FALSE) :
                           c \in MoveFile(St(x), cloudPath, originalPath) } :
                x \in Remove(st, originalPath) }

doUnlink(st, originalPath, cloudPath) ==
    LET out(r, res, e, rb) == FileOut(r, res, e, "", <<>>, rb)
        copied(c) ==
            IF c.err = "" THEN {out(c, unlinkResultUnlinked, "", FALSE)}
            ELSE { out(z, unlinkResultFailed, "copying file", z.err # "") :
                       z \in Create(St(c), originalPath, cloudPath) }
    IN  IF Stat(st.fs, cloudPath).err = "ENOENT"
        THEN { IF x.err # "" THEN out(x, unlinkResultFailed, "removing symlink", FALSE)
               ELSE out(x, unlinkResultUnlinked, "", FALSE) :
                   x \in Remove(st, originalPath) }
        ELSE UNION { IF x.err # ""
                     THEN {out(x, unlinkResultFailed, "removing symlink", FALSE)}
                     ELSE UNION { copied(c) :
                                  c \in CopyFile(St(x), cloudPath, originalPath) } :
                     x \in Remove(st, originalPath) }

\* An unlinkFile that leaves a broken symlink where it is.
unlinkFile_KeepBroken(st, originalPath, cloudPath) ==
    LET chk == Check(st.fs, originalPath, cloudPath)
        status == chk.status
        out(r, res, e) == FileOut(r, res, e, "", <<>>, FALSE)
    IN  IF chk.err # "" THEN {out(st, unlinkResultFailed, chk.err)}
        ELSE IF status \in {StatusNotExist, StatusBroken}
        THEN {out(st, unlinkResultNotExist, "")}
        ELSE IF status = StatusNotLinked THEN {out(st, unlinkResultSkipped, "")}
        ELSE doUnlink(st, originalPath, cloudPath)

unlinkFile(st, originalPath, cloudPath) ==
    LET chk == Check(st.fs, originalPath, cloudPath)
        status == chk.status
        out(r, res, e) == FileOut(r, res, e, "", <<>>, FALSE)
    IN  IF chk.err # "" THEN {out(st, unlinkResultFailed, chk.err)}
        ELSE IF status = StatusNotExist THEN {out(st, unlinkResultNotExist, "")}
        ELSE IF status = StatusNotLinked THEN {out(st, unlinkResultSkipped, "")}
        ELSE IF status \in {StatusLinked, StatusIncorrect}
        THEN doUnlink(st, originalPath, cloudPath)
        ELSE IF status = StatusBroken
        THEN { IF x.err # "" THEN out(x, unlinkResultFailed, "removing broken symlink")
               ELSE out(x, unlinkResultUnlinked, "") :
                   x \in Remove(st, originalPath) }
        ELSE {out(st, unlinkResultFailed, "unexpected status")}

RECURSIVE UnlinkFiles(_, _)
UnlinkFiles(acc, files) ==
    IF files = <<>> THEN {acc}
    ELSE LET file == Head(files)
             st == [fs |-> acc.fs, inj |-> acc.inj, now |-> acc.now]
             step(r) ==
                 [fs |-> r.fs, inj |-> r.inj, now |-> r.now, man |-> acc.man,
                  linked |-> acc.linked
                             + (IF r.result = unlinkResultUnlinked THEN 1 ELSE 0),
                  skipped |-> acc.skipped
                              + (IF r.result \in {unlinkResultSkipped,
                                                  unlinkResultNotExist} THEN 1 ELSE 0),
                  failed |-> acc.failed
                             + (IF r.result = unlinkResultFailed THEN 1 ELSE 0),
                  files |-> acc.files,
                  log |-> Append(acc.log, Seen(file, st, r)),
                  err |-> ""]
         IN  UNION { UnlinkFiles(step(r), Tail(files)) :
                     r \in unlinkFile(st, file.originalPath, file.cloudPath) }

\* A runUnlink that drops the entries it has unlinked from the manifest.
runUnlink_Prune(f, onDisk, t, k, args) ==
    LET loaded == Load(onDisk)
        m == loaded.m
        start == RunStart(f, onDisk, t, k)
        stop(e) == {[start EXCEPT !.err = e]}
        selected == IF Len(args) > 0 THEN {args[1]} ELSE DOMAIN m.Entries
        kept(r) == { n \in DOMAIN m.Entries :
                        \A i \in 1..Len(r.log) :
                            r.log[i].name = n => r.log[i].result # unlinkResultUnlinked }
        finish(r) ==
            [r EXCEPT !.err = IF r.failed > 0 THEN "some files failed to unlink" ELSE "",
                      !.man = [m EXCEPT !.Entries = [n \in kept(r) |-> m.Entries[n]]]]
    IN  IF loaded.err = "manifest not found" THEN stop("no manifest found")
        ELSE IF loaded.err # "" THEN stop("loading manifest")
        ELSE IF DOMAIN m.Entries = {} THEN stop("")
        ELSE IF Len(args) > 0 /\ ~GetEntry(m, args[1]).ok THEN stop("entry not found")
        ELSE { finish(r) :
                   r \in UNION { UnlinkFiles([start EXCEPT !.files = files], files) :
                                 files \in RunOrders(m, selected) } }

\* The run's counter "unlinked" is the field linked of the result.
runUnlink(f, onDisk, t, k, args) ==
    LET loaded == Load(onDisk)
        m == loaded.m
        start == RunStart(f, onDisk, t, k)
        stop(e) == {[start EXCEPT !.err = e]}
        selected == IF Len(args) > 0 THEN {args[1]} ELSE DOMAIN m.Entries
        finish(r) ==
            IF r.failed > 0 THEN [r EXCEPT !.err = "some files failed to unlink"]
            ELSE r
    IN  IF loaded.err = "manifest not found" THEN stop("no manifest found")
        ELSE IF loaded.err # "" THEN stop("loading manifest")
        ELSE IF DOMAIN m.Entries = {} THEN stop("")
        ELSE IF Len(args) > 0 /\ ~GetEntry(m, args[1]).ok THEN stop("entry not found")
        ELSE { finish(r) :
                   r \in UNION { UnlinkFiles([start EXCEPT !.files = files], files) :
                                 files \in RunOrders(m, selected) } }

(***************************************************************************)
(* Observations used by the properties.                                    *)
(***************************************************************************)
IsRegular(f, p) == Lstat(f, p).kind = "file"

Exists(f, p) == Lstat(f, p).kind # "none"

Listed(man, absPath) ==
    \E n \in DOMAIN man.Entries : TrackedBy(man, n, absPath)

\* storage/dotsync/<name>/<relPath> of a path whose entry is inferred
CloudPath(inferred) ==
    Join(<<StoragePath, DotSync, inferred.Name, inferred.RelPath>>)

CloudOf(p) == CloudPath(InferFromPath(p))

(***************************************************************************)
(* Specification SpecMove: symlink.MoveFile on its own, between the local  *)
(* paths and their storage destinations, in both directions.               *)
(***************************************************************************)
MovePaths == AddPaths \cup { CloudOf(p) : p \in AddPaths }

InitMove ==
    /\ fs = LocalFiles
    /\ manifest = AbsentManifest
    /\ now = 0
    /\ inj = MaxFaults
    /\ steps = 0
    /\ last = [op |-> "init"]

Move ==
    /\ steps < MaxCmds
    /\ \E src \in MovePaths :
         \E dst \in MovePaths \ {src} :
           \E r \in MoveFile([fs |-> fs, inj |-> inj, now |-> now], src, dst) :
               /\ fs' = r.fs
               /\ inj' = r.inj
               /\ steps' = steps + 1
               /\ last' = [op |-> "move", src |-> src, dst |-> dst,
                           err |-> r.err, prefs |-> fs]
               /\ UNCHANGED <<manifest, now>>

NextMove == Move

SpecMove == InitMove /\ [][NextMove]_vars

(***************************************************************************)
(* Properties of Add and MoveFile.                                         *)
(***************************************************************************)
AddBegan == last.op = "add" /\ last.stage \in {"move", "symlink", "save", "done"}

\* C1: Add is all-or-nothing.  Once runAdd returns from a run that took the
\* backup (whether the move, the symlink creation or the manifest save
\* failed, or nothing did, and with every rollback step succeeding), the
\* file is a regular file at exactly one of the original path and the
\* storage destination: never at both, never at neither.
C1_AddAllOrNothing ==
    (AddBegan /\ ~last.rb)
        => (IsRegular(fs, last.path) /\ ~Exists(fs, last.dest))
           \/ (~IsRegular(fs, last.path) /\ IsRegular(fs, last.dest))

MovedAFile ==
    /\ last.op = "move"
    /\ IsRegular(last.prefs, last.src)
    /\ ~Exists(last.prefs, last.dst)

\* C2: symlink.MoveFile(src, dst), called with a file at src and nothing at
\* dst, never returns with a file at both: on success only dst holds the
\* file, on every failure only src holds it and nothing is left at dst.
C2_MoveNeverBoth ==
    MovedAFile =>
        IF last.err = ""
        THEN ~Exists(fs, last.src) /\ Lstat(fs, last.dst) = Lstat(last.prefs, last.src)
        ELSE ~Exists(fs, last.dst) /\ Lstat(fs, last.src) = Lstat(last.prefs, last.src)

\* C3: whenever runAdd returns an error after the backup was taken (move,
\* symlink creation or manifest save failed, every rollback step
\* succeeding), the filesystem is as before the Add: the original path is
\* the regular file it was, with its bytes, nothing is at the storage
\* destination, and the persisted manifest does not list the file.
C3_AddFailureRestores ==
    (AddBegan /\ last.err # "" /\ ~last.rb)
        => /\ IsRegular(fs, last.path)
           /\ Lstat(fs, last.path).data = Lstat(last.prefs, last.path).data
           /\ ~Exists(fs, last.dest)
           /\ ~Listed(manifest, last.path)

(***************************************************************************)
(* Specification SpecCheck: package symlink on its own.  Links are created *)
(* and removed through the package, files appear and vanish underneath,    *)
(* and Check classifies what it finds.                                     *)
(***************************************************************************)
\* The storage copy of F1 written with a doubled separator.
UncleanCloud ==
    StoragePath \o <<"/">> \o DotSync \o <<"/", "/", "a", "/", "f">>

CheckLinks == {F1, F3}

CheckFiles == {CloudOf(F1), CloudOf(F3)}

CheckTargets == CheckFiles \cup CheckLinks \cup {UncleanCloud}

InitCheck ==
    /\ fs = [p \in {CloudOf(F1)} |-> LocalFiles[F1]]
    /\ manifest = AbsentManifest
    /\ now = 0
    /\ inj = MaxFaults
    /\ steps = 0
    /\ last = [op |-> "init"]

LinkCreate ==
    /\ steps < MaxCmds
    /\ \E linkPath \in CheckLinks :
         \E targetPath \in CheckTargets :
           \E r \in Create([fs |-> fs, inj |-> inj, now |-> now], linkPath, targetPath) :
               /\ fs' = r.fs
               /\ inj' = r.inj
               /\ steps' = steps + 1
               /\ last' = [op |-> "create", link |-> linkPath, target |-> targetPath,
                           err |-> r.err, prefs |-> fs]
               /\ UNCHANGED <<manifest, now>>

LinkRemove ==
    /\ steps < MaxCmds
    /\ \E linkPath \in CheckLinks \cup CheckFiles :
           \E r \in Remove([fs |-> fs, inj |-> inj, now |-> now], linkPath) :
               /\ fs' = r.fs
               /\ inj' = r.inj
               /\ steps' = steps + 1
               /\ last' = [op |-> "remove", link |-> linkPath, err |-> r.err,
                           prefs |-> fs]
               /\ UNCHANGED <<manifest, now>>

\* Another program writes a regular file.
EnvWrite ==
    /\ steps < MaxCmds
    /\ \E p \in CheckFiles \cup CheckLinks :
           /\ Lstat(fs, p).kind = "none"
           /\ fs' = Put(fs, p, LocalFiles[F3])
           /\ steps' = steps + 1
           /\ last' = [op |-> "write", path |-> p]
           /\ UNCHANGED <<manifest, now, inj>>

\* Another program deletes a regular file.
EnvDelete ==
    /\ steps < MaxCmds
    /\ \E p \in CheckFiles \cup CheckLinks :
           /\ Lstat(fs, p).kind = "file"
           /\ fs' = Del(fs, p)
           /\ steps' = steps + 1
           /\ last' = [op |-> "delete", path |-> p]
           /\ UNCHANGED <<manifest, now, inj>>

\* Another program creates a directory.
EnvMkdir ==
    /\ steps < MaxCmds
    /\ \E p \in CheckLinks :
           /\ Lstat(fs, p).kind = "none"
           /\ fs' = Put(fs, p, DirNode)
           /\ steps' = steps + 1
           /\ last' = [op |-> "mkdir", path |-> p]
           /\ UNCHANGED <<manifest, now, inj>>

CheckLink ==
    /\ last.op # "check"
    /\ \E linkPath \in CheckLinks \cup CheckFiles :
         \E expectedTarget \in CheckTargets :
           /\ last' = [op |-> "check", link |-> linkPath, target |-> expectedTarget,
                       res |-> Check(fs, linkPath, expectedTarget)]
           /\ UNCHANGED <<fs, manifest, now, inj, steps>>

NextCheck ==
    LinkCreate \/ LinkRemove \/ EnvWrite \/ EnvDelete \/ EnvMkdir \/ CheckLink

SpecCheck == InitCheck /\ [][NextCheck]_vars

(***************************************************************************)
(* Properties of Check and Create.                                         *)
(***************************************************************************)
Checked == last.op = "check"

IsLink(f, p) == Lstat(f, p).kind = "link"

\* stat through the path succeeds
Reachable(f, p) == Stat(f, p).err = ""

\* stat through the path reports that nothing is there
Vanished(f, p) == Stat(f, p).err = "ENOENT"

\* the link's target is the expected one, literally or as absolute paths
Matches(f, linkPath, expectedTarget) ==
    \/ Lstat(f, linkPath).target = expectedTarget
    \/ Clean(Lstat(f, linkPath).target) = Clean(expectedTarget)

\* C6 as stated: Check never fails and reports NotExist when nothing is at
\* linkPath, NotLinked when a non-symlink is there, Broken when a symlink's
\* target cannot be reached (whatever it points at), Incorrect when the
\* target is reachable and does not match, Linked when it is reachable and
\* matches.
C6_CheckFiveStates ==
    Checked =>
        /\ last.res.err = ""
        /\ last.res.status =
               IF ~Exists(fs, last.link) THEN StatusNotExist
               ELSE IF ~IsLink(fs, last.link) THEN StatusNotLinked
               ELSE IF ~Reachable(fs, last.link) THEN StatusBroken
               ELSE IF ~Matches(fs, last.link, last.target) THEN StatusIncorrect
               ELSE StatusLinked

\* C6 amended: Check fails exactly when linkPath is a symlink and stat
\* through it fails for another reason than a missing target (a symlink
\* loop); otherwise it reports NotExist when nothing is at linkPath,
\* NotLinked when a non-symlink is there, Broken when stat through the
\* symlink finds the target missing, whatever the symlink points at,
\* Incorrect when the target is reachable and does not match, Linked only
\* when it is reachable and matches.
C6_CheckFiveStatesOrError ==
    Checked =>
        IF IsLink(fs, last.link) /\ ~Reachable(fs, last.link) /\ ~Vanished(fs, last.link)
        THEN last.res.err # ""
        ELSE /\ last.res.err = ""
             /\ last.res.status =
                    IF ~Exists(fs, last.link) THEN StatusNotExist
                    ELSE IF ~IsLink(fs, last.link) THEN StatusNotLinked
                    ELSE IF Vanished(fs, last.link) THEN StatusBroken
                    ELSE IF ~Matches(fs, last.link, last.target) THEN StatusIncorrect
                    ELSE StatusLinked

\* Check has classified a symlink that points at the expected path, which
\* is not there, as Broken.
C6_Witness ==
    /\ Checked
    /\ IsLink(fs, last.link)
    /\ Lstat(fs, last.link).target = last.target
    /\ Vanished(fs, last.link)
    /\ last.res.status = StatusBroken

Created == last.op = "create" /\ last.err = ""

\* C7 as stated: after Create(link, target) succeeds, Check(link, target)
\* reports Linked, for every link path and target.
C7_CreateCheckRoundTrip ==
    Created =>
        /\ Check(fs, last.link, last.target).err = ""
        /\ Check(fs, last.link, last.target).status = StatusLinked

\* C7 amended: after Create(link, target) succeeds with a target that
\* existed when Create was called (stat of the target succeeded),
\* Check(link, target) reports Linked.
C7_CreateCheckRoundTripExisting ==
    (Created /\ Reachable(last.prefs, Clean(last.target)))
        => /\ Check(fs, last.link, last.target).err = ""
           /\ Check(fs, last.link, last.target).status = StatusLinked

\* Create has succeeded with a target that exists.
C7_Witness ==
    /\ Created
    /\ Reachable(last.prefs, Clean(last.target))
    /\ IsLink(fs, last.link)

(***************************************************************************)
(* Specification SpecLink: a machine whose manifest tracks F1 and F2 in    *)
(* entry a and F3 in entry b, with the tracked paths in any link state,    *)
(* on which dotsync link or dotsync unlink runs once.                      *)
(***************************************************************************)
TrackedManifest ==
    LET add(m, p) == AddFile(m, InferFromPath(p).Name, InferFromPath(p).Root,
                             InferFromPath(p).RelPath)
    IN  add(add(add(New, F1), F2), F3)

\* A path where nothing is.
Gone == Join(<<UserHomeDir, <<"y">>>>)

StartKinds(p) ==
    IF p = F1 THEN {"absent", "file", "linked", "wrong", "dangling", "loop"}
    ELSE IF p = F2 THEN {"absent", "file"}
    ELSE {"linked", "wrong"}

\* The storage copy of F1 may have vanished, whatever is at F1.
StartClouds(kind, p) == IF p = F1 THEN BOOLEAN ELSE {TRUE}

StartNode(kind, p) ==
    IF kind = "file" THEN FileNode("mine", "0600")
    ELSE IF kind = "linked" THEN LinkNode(CloudOf(p))
    ELSE IF kind = "wrong" THEN LinkNode(Other)
    ELSE IF kind = "dangling" THEN LinkNode(Gone)
    ELSE LinkNode(p)

StartFs(kind, cloud) ==
    LET locals == { p \in AddPaths : kind[p] # "absent" }
        clouds == { CloudOf(p) : p \in { q \in AddPaths : cloud[q] } }
    IN  [q \in locals \cup clouds \cup {Other} |->
            IF q = Other THEN FileNode("other", "0644")
            ELSE IF q \in AddPaths THEN StartNode(kind[q], q)
            ELSE LocalFiles[CHOOSE p \in AddPaths : CloudOf(p) = q]]

InitLink ==
    /\ \E kind \in [AddPaths -> UNION { StartKinds(p) : p \in AddPaths }] :
         \E cloud \in [AddPaths -> BOOLEAN] :
           /\ \A p \in AddPaths : kind[p] \in StartKinds(p) /\ cloud[p] \in StartClouds(kind, p)
           /\ fs = StartFs(kind, cloud)
    /\ manifest = TrackedManifest
    /\ now = 0
    /\ inj = MaxLinkFaults
    /\ steps = 0
    /\ last = [op |-> "init"]

\* The command lines: no argument, a tracked entry, an unknown entry.
EntryArgs == {<<>>, << <<"a">> >>, << <<"b">> >>, << <<"c">> >>}

Link ==
    /\ steps = 0
    /\ \E args \in EntryArgs :
         \E linkBackup \in BOOLEAN :
           \E r \in runLink(fs, manifest, now, inj, args, linkBackup) :
               /\ fs' = r.fs
               /\ manifest' = r.man
               /\ now' = r.now
               /\ inj' = r.inj
               /\ steps' = steps + 1
               /\ last' = [op |-> "link", args |-> args, autoBackup |-> linkBackup,
                           prefs |-> fs, preman |-> manifest, err |-> r.err,
                           linked |-> r.linked, skipped |-> r.skipped,
                           failed |-> r.failed, files |-> r.files, log |-> r.log]

Unlink ==
    /\ steps = 0
    /\ \E args \in EntryArgs :
           \E r \in runUnlink(fs, manifest, now, inj, args) :
               /\ fs' = r.fs
               /\ manifest' = r.man
               /\ now' = r.now
               /\ inj' = r.inj
               /\ steps' = steps + 1
               /\ last' = [op |-> "unlink", args |-> args,
                           prefs |-> fs, preman |-> manifest, err |-> r.err,
                           linked |-> r.linked, skipped |-> r.skipped,
                           failed |-> r.failed, files |-> r.files, log |-> r.log]

NextLink == Link \/ Unlink

SpecLink == InitLink /\ [][NextLink]_vars

(***************************************************************************)
(* Specification SpecPrompt: linkFile called on one file whose cloud copy  *)
(* exists and whose original path holds a plain file or a symlink to       *)
(* another file, with every kind of answer at the conflict prompt.         *)
(***************************************************************************)
BackupLines == {<<"b", "\n">>, <<"B">>, <<"b", "a", "c", "k", "u", "p", "\n">>}

SkipLines == {<<"s">>, <<" ", "S", "\n">>, <<"s", "k", "i", "p">>}

AbortLines == {<<"a", "\n">>, <<"A">>, <<"a", "b", "o", "r", "t">>}

OtherLines == {<<>>, <<"\n">>, <<"x", "\n">>, <<"a", "b">>, <<"b", "s">>}

PromptLines == BackupLines \cup SkipLines \cup AbortLines \cup OtherLines

InitPrompt ==
    /\ \E k \in {"file", "wrong"} :
           fs = StartFs([p \in AddPaths |-> IF p = F1 THEN k ELSE "absent"],
                        [p \in AddPaths |-> p = F1])
    /\ manifest = TrackedManifest
    /\ now = 0
    /\ inj = MaxLinkFaults
    /\ steps = 0
    /\ last = [op |-> "init"]

Resolve ==
    /\ \E autoBackup \in BOOLEAN, input \in PromptLines :
         \E r \in linkFile([fs |-> fs, inj |-> inj, now |-> now], F1, CloudOf(F1),
                           autoBackup, input) :
             /\ fs' = r.fs
             /\ inj' = r.inj
             /\ now' = r.now
             /\ last' = [op |-> "resolve", autoBackup |-> autoBackup,
                         input |-> input, prefs |-> fs, result |-> r.result,
                         action |-> r.action, err |-> r.err]
    /\ UNCHANGED <<manifest, steps>>

NextPrompt == Resolve

SpecPrompt == InitPrompt /\ [][NextPrompt]_vars

(***************************************************************************)
(* Properties of Link and Unlink.  last.log[i] is the i-th call of         *)
(* linkFile / unlinkFile of the run.                                       *)
(***************************************************************************)
Calls == IF last.op \in {"link", "unlink"} THEN 1..Len(last.log) ELSE {}

CloudPaths == { CloudOf(p) : p \in AddPaths }

\* the state Check reported when the call began
StateOf(e) == Check(e.before, e.originalPath, e.cloudPath)

InState(e, status) == StateOf(e).err = "" /\ StateOf(e).status = status

NoFault(e) == e.inj = e.inj0

\* what reading the path returned (through symlinks)
ContentAt(f, p) == f[Stat(f, p).path].data

\* C4: unlink never deletes or alters the cloud copy.  After unlinkFile
\* returns, with any result, every storage file that existed before the
\* call still exists with the same bytes; when it returns unlinked for a
\* file that was Linked, the original path is a regular file whose bytes
\* equal the storage file's; and so the storage files are unchanged when
\* the run ends.
C4_UnlinkKeepsCloudCopy ==
    last.op = "unlink" =>
        /\ \A i \in Calls :
             LET e == last.log[i]
             IN  /\ \A c \in CloudPaths :
                        IsRegular(e.before, c) => Lstat(e.after, c) = Lstat(e.before, c)
                 /\ (e.result = unlinkResultUnlinked /\ InState(e, StatusLinked))
                        => /\ IsRegular(e.after, e.originalPath)
                           /\ IsRegular(e.after, e.cloudPath)
                           /\ Lstat(e.after, e.originalPath).data
                                  = Lstat(e.after, e.cloudPath).data
        /\ \A c \in CloudPaths :
               IsRegular(last.prefs, c) => Lstat(fs, c) = Lstat(last.prefs, c)

\* unlinkFile has returned unlinked for a Linked file, and failed for
\* another file of the same run after removing its symlink.
C4_Witness ==
    /\ last.op = "unlink"
    /\ \E i \in Calls :
           /\ last.log[i].result = unlinkResultUnlinked
           /\ InState(last.log[i], StatusLinked)
    /\ \E i \in Calls :
           /\ last.log[i].result = unlinkResultFailed
           /\ last.log[i].after # last.log[i].before

\* C5: an unlink run never mutates the manifest.  After runUnlink returns,
\* whatever entries were selected and whatever the per-file results, the
\* persisted manifest is the one that was there at the start.
C5_UnlinkKeepsManifest ==
    last.op = "unlink" => manifest = last.preman

\* An unlink run over one entry has unlinked one file of it and skipped
\* the other, and both entries are still tracked.
C5_Witness ==
    /\ last.op = "unlink"
    /\ Len(last.args) = 1
    /\ \E i \in Calls : last.log[i].result = unlinkResultUnlinked
    /\ \E i \in Calls : last.log[i].result = unlinkResultSkipped
    /\ DOMAIN manifest.Entries = {<<"a">>, <<"b">>}

Count(result) == Cardinality({ i \in Calls : last.log[i].result = result })

\* C8: link's dispatch per file when the cloud copy exists.  Linked: the
\* call changes nothing on disk and returns already-linked, which the run
\* counts neither as linked nor as skipped.  NotExist: it creates the
\* symlink and nothing else.  Broken: it removes the stale symlink and
\* creates a fresh one.  In the last two cases the call succeeds unless a
\* step fails, and once it succeeded Check(originalPath, cloudPath) is
\* Linked.
C8_LinkDispatch ==
    last.op = "link" =>
        /\ \A i \in Calls :
             LET e == last.log[i]
                 fresh == Put(e.before, e.originalPath, LinkNode(e.cloudPath))
             IN  IsRegular(e.before, e.cloudPath) =>
                   /\ InState(e, StatusLinked)
                        => e.result = linkResultAlreadyLinked /\ e.after = e.before
                   /\ (InState(e, StatusNotExist) \/ InState(e, StatusBroken))
                        => /\ e.result \in {linkResultLinked, linkResultFailed}
                           /\ NoFault(e) => e.result = linkResultLinked
                           /\ e.result = linkResultLinked
                                => /\ e.after = fresh
                                   /\ Check(e.after, e.originalPath, e.cloudPath).status
                                          = StatusLinked
                                   /\ Check(e.after, e.originalPath, e.cloudPath).err = ""
                   /\ (InState(e, StatusNotExist) /\ e.result = linkResultFailed)
                        => e.after = e.before
        /\ last.linked = Count(linkResultLinked)
        /\ last.skipped = Count(linkResultSkipped)

\* One run has found a Linked file, a missing one and a Broken one, all
\* with their cloud copies, and has linked the last two.
C8_Witness ==
    /\ last.op = "link"
    /\ \E i \in Calls :
           /\ InState(last.log[i], StatusLinked)
           /\ last.log[i].result = linkResultAlreadyLinked
    /\ \E i \in Calls :
           /\ InState(last.log[i], StatusNotExist)
           /\ last.log[i].result = linkResultLinked
    /\ \E i \in Calls :
           /\ InState(last.log[i], StatusBroken)
           /\ IsRegular(last.log[i].before, last.log[i].cloudPath)
           /\ last.log[i].result = linkResultLinked

\* C9: link --backup.  When a plain file (NotLinked) or a symlink to a
\* wrong existing target (Incorrect) is at the original path, the cloud
\* copy exists and no step fails, then when linkFile returns it has linked
\* the file, Check reports the original path Linked to the cloud copy, and
\* a backup file holds the content that was read at the original path.
C9_AutoBackupLinks ==
    (last.op = "link" /\ last.autoBackup) =>
        \A i \in Calls :
            LET e == last.log[i]
            IN  ( /\ InState(e, StatusNotLinked) \/ InState(e, StatusIncorrect)
                  /\ IsRegular(e.before, e.cloudPath)
                  /\ NoFault(e) )
                    => /\ e.result = linkResultLinked
                       /\ Check(e.after, e.originalPath, e.cloudPath).status = StatusLinked
                       /\ Check(e.after, e.originalPath, e.cloudPath).err = ""
                       /\ e.bk # <<>>
                       /\ IsRegular(e.after, e.bk)
                       /\ Lstat(e.after, e.bk).data = ContentAt(e.before, e.originalPath)

\* A --backup run has replaced a plain file and a wrong symlink.
C9_Witness ==
    /\ last.op = "link"
    /\ last.autoBackup
    /\ \E i \in Calls :
           /\ InState(last.log[i], StatusNotLinked)
           /\ NoFault(last.log[i])
           /\ last.log[i].result = linkResultLinked
    /\ \E i \in Calls :
           /\ InState(last.log[i], StatusIncorrect)
           /\ NoFault(last.log[i])
           /\ last.log[i].result = linkResultLinked

Aborted(i) == last.log[i].action = conflictAbort

\* C10: when the conflict decision for a file is abort, the run stops at
\* once.  That call is the last one of the run and changed nothing, the
\* original paths of the files that were still to come are as they were
\* before the run, every symlink the run created before is in place, and
\* runLink returns an error.
C10_AbortStopsRun ==
    last.op = "link" =>
        \A i \in Calls :
            Aborted(i) =>
                /\ i = Len(last.log)
                /\ fs = last.log[i].before
                /\ \A j \in (i + 1)..Len(last.files) :
                       Lstat(fs, last.files[j].originalPath)
                           = Lstat(last.prefs, last.files[j].originalPath)
                /\ \A j \in 1..(i - 1) :
                       last.log[j].result = linkResultLinked
                           => Lstat(fs, last.log[j].originalPath)
                                  = LinkNode(last.log[j].cloudPath)
                /\ last.err # ""

\* A run has linked a file, was then told to abort, and a file that was
\* not Linked was still to come.
C10_Witness ==
    /\ last.op = "link"
    /\ \E i \in Calls :
           /\ Aborted(i)
           /\ \E j \in 1..(i - 1) : last.log[j].result = linkResultLinked
           /\ \E j \in (i + 1)..Len(last.files) :
                  Check(last.prefs, last.files[j].originalPath,
                        last.files[j].cloudPath).status # StatusLinked

(***************************************************************************)
(* Properties of the runs over several files.                              *)
(***************************************************************************)
RunOverFiles == last.op \in {"link", "unlink"} /\ last.files # <<>>

NoAbort == \A i \in Calls : last.log[i].result # linkResultAborted

\* C11: in a link or unlink run a per-file failure never stops the run.
\* Unless the user aborts, every file of every selected entry is processed,
\* in the run's order; each file is counted in exactly one of the counters
\* succeeded / skipped / failed, an already-linked file in none; and the
\* command returns an error if and only if at least one file failed.
C11_FailureNeverStopsRun ==
    (RunOverFiles /\ NoAbort) =>
        /\ Len(last.log) = Len(last.files)
        /\ \A i \in Calls : last.log[i].originalPath = last.files[i].originalPath
        /\ last.failed = Count(linkResultFailed)
        /\ last.linked = IF last.op = "link" THEN Count(linkResultLinked)
                         ELSE Count(unlinkResultUnlinked)
        /\ last.skipped = IF last.op = "link" THEN Count(linkResultSkipped)
                          ELSE Count(unlinkResultSkipped) + Count(unlinkResultNotExist)
        /\ last.linked + last.skipped + last.failed
               = Len(last.log) - Count(linkResultAlreadyLinked)
        /\ (last.err # "") <=> (last.failed > 0)

\* A link run met a file that failed, went on, and linked a later file.
C11_Witness ==
    /\ last.op = "link"
    /\ NoAbort
    /\ \E i \in Calls :
           /\ last.log[i].result = linkResultFailed
           /\ \E j \in Calls : j > i /\ last.log[j].result = linkResultLinked

\* C12: if the cloud copy of a file is missing, link fails that file only.
\* linkFile returns failed and leaves the disk as it found it (nothing is
\* created, removed or replaced at the original path), whatever the state
\* of the original path, and the run goes on to the next file.
C12_MissingCloudFailsFileOnly ==
    last.op = "link" =>
        \A i \in Calls :
            LET e == last.log[i]
            IN  ~Exists(e.before, e.cloudPath) =>
                    /\ e.result = linkResultFailed
                    /\ e.after = e.before
                    /\ i < Len(last.files) => Len(last.log) > i

\* A run found a plain file whose cloud copy is missing, failed it, and
\* went on to the next file.
C12_Witness ==
    /\ last.op = "link"
    /\ \E i \in Calls :
           /\ ~Exists(last.log[i].before, last.log[i].cloudPath)
           /\ IsRegular(last.log[i].before, last.log[i].originalPath)
           /\ last.log[i].result = linkResultFailed
           /\ Len(last.log) > i

\* every path but p is as it was
OnlyChanged(f, g, p) ==
    \A q \in ((DOMAIN f) \cup (DOMAIN g)) \ {p} : Lstat(g, q) = Lstat(f, q)

\* the original path holds a regular file with the bytes of the cloud file
CopiedBack(e) ==
    /\ IsRegular(e.before, e.cloudPath)
    /\ IsRegular(e.after, e.originalPath)
    /\ e.after[e.originalPath].data = e.before[e.cloudPath].data
    /\ OnlyChanged(e.before, e.after, e.originalPath)

\* C13 as stated: unlink's dispatch per file.  NotExist and NotLinked
\* change nothing; Linked and Incorrect end with a regular file at the
\* original path whose bytes are the cloud file's; Broken removes the
\* stale symlink and copies nothing.
C13_UnlinkDispatch ==
    last.op = "unlink" =>
        \A i \in Calls :
            LET e == last.log[i]
            IN  /\ (InState(e, StatusNotExist) \/ InState(e, StatusNotLinked))
                       => e.after = e.before
                /\ ((InState(e, StatusLinked) \/ InState(e, StatusIncorrect))
                        /\ e.result = unlinkResultUnlinked)
                       => CopiedBack(e)
                /\ (InState(e, StatusBroken) /\ e.result = unlinkResultUnlinked)
                       => e.after = Del(e.before, e.originalPath)

\* C13 amended: as above while the cloud file exists; a symlink to a wrong
\* existing target (Incorrect) whose cloud file is missing is removed and
\* nothing is copied, so that nothing is left at the original path.  A
\* call in one of the three symlink states returns unlinked unless a step
\* fails, and a call that fails at removing the symlink changes nothing.
C13_UnlinkDispatchCloudPresent ==
    last.op = "unlink" =>
        \A i \in Calls :
            LET e == last.log[i]
                symlinked == \/ InState(e, StatusLinked)
                             \/ InState(e, StatusIncorrect)
                             \/ InState(e, StatusBroken)
            IN  /\ InState(e, StatusNotExist)
                       => e.result = unlinkResultNotExist /\ e.after = e.before
                /\ InState(e, StatusNotLinked)
                       => e.result = unlinkResultSkipped /\ e.after = e.before
                /\ symlinked
                       => /\ e.result \in {unlinkResultUnlinked, unlinkResultFailed}
                          /\ NoFault(e) => e.result = unlinkResultUnlinked
                /\ ((InState(e, StatusLinked) \/ InState(e, StatusIncorrect))
                        /\ e.result = unlinkResultUnlinked)
                       => IF Exists(e.before, e.cloudPath) THEN CopiedBack(e)
                          ELSE /\ InState(e, StatusIncorrect)
                               /\ e.after = Del(e.before, e.originalPath)
                /\ (InState(e, StatusBroken) /\ e.result = unlinkResultUnlinked)
                       => e.after = Del(e.before, e.originalPath)
                /\ (symlinked /\ e.err \in {"removing symlink", "removing broken symlink"})
                       => e.after = e.before

\* One run has unlinked an Incorrect symlink whose cloud file exists, and a
\* run has unlinked a Linked one, a Broken one and an Incorrect one whose
\* cloud file is missing.
C13_Witness ==
    /\ last.op = "unlink"
    /\ \E i \in Calls :
           /\ InState(last.log[i], StatusIncorrect)
           /\ Exists(last.log[i].before, last.log[i].cloudPath)
           /\ last.log[i].result = unlinkResultUnlinked
    /\ \E i \in Calls :
           /\ \/ InState(last.log[i], StatusLinked)
              \/ InState(last.log[i], StatusBroken)
              \/ /\ InState(last.log[i], StatusIncorrect)
                 /\ ~Exists(last.log[i].before, last.log[i].cloudPath)
           /\ last.log[i].result = unlinkResultUnlinked

(***************************************************************************)
(* Properties of CheckEntryConflict.                                       *)
(***************************************************************************)
Asked == last.op = "conflict"

EntryRoot(m, n) == ExpandHome(m.Entries[n].Root)

StrictlyUnder(p, dir) == HasPrefix(p, dir \o <<Separator>>)

\* C14: for a path under an existing entry's root, CheckEntryConflict
\* returns that entry's name when an explicit name is given and differs
\* from it, and no conflict when no name is given or the name is the
\* entry's.
C14_UnderRootByName ==
    Asked =>
        \A n \in DOMAIN last.m.Entries :
            UnderRoot(last.m, n, last.absPath) =>
                last.result = IF last.explicitName # <<>> /\ last.explicitName # n
                              THEN n ELSE <<>>

\* C15: for a path that is a tracked file of an entry, CheckEntryConflict
\* returns the name of an entry that tracks it, whatever the explicit
\* name.
C15_TrackedAlwaysConflicts ==
    Asked =>
        ((\E n \in DOMAIN last.m.Entries : TrackedBy(last.m, n, last.absPath))
            => /\ last.result \in DOMAIN last.m.Entries
               /\ TrackedBy(last.m, last.result, last.absPath))

\* C16: with no explicit name and a manifest of one entry, a path whose
\* inferred root is strictly under the entry's root, or strictly above it,
\* conflicts with that entry.
C16_OverlapSymmetric ==
    (Asked /\ last.explicitName = <<>> /\ InferFromPath(last.absPath).ok) =>
        \A n \in DOMAIN last.m.Entries :
            LET inferredRoot == ExpandHome(InferFromPath(last.absPath).Root)
            IN  (/\ DOMAIN last.m.Entries = {n}
                 /\ \/ StrictlyUnder(inferredRoot, EntryRoot(last.m, n))
                    \/ StrictlyUnder(EntryRoot(last.m, n), inferredRoot))
                    => last.result = n

(***************************************************************************)
(* Properties of the manifest under dotsync add.                           *)
(***************************************************************************)
\* the (entry, index) pairs of the manifest and the path each one claims
Claims(m) ==
    { <<n, i>> : n \in DOMAIN m.Entries, i \in 1..3 } \cap
    { c \in (DOMAIN m.Entries) \X (1..3) : c[2] <= Len(m.Entries[c[1]].Files) }

ClaimedPath(m, c) == Join(<<EntryRoot(m, c[1]), m.Entries[c[1]].Files[c[2]]>>)

\* C17: after any sequence of adds no entry's root is a strict ancestor
\* or a strict descendant directory of another entry's root.
C17_NoNestedRoots ==
    \A n1, n2 \in DOMAIN manifest.Entries :
        ~StrictlyUnder(EntryRoot(manifest, n1), EntryRoot(manifest, n2))

ValidName(n) ==
    /\ n # <<>>
    /\ \A i \in 1..Len(n) : n[i] \notin {"/", "\\"}
    /\ n \notin {<<".">>, <<".", ".">>}

\* the name the user gave to the last add, with --name or at the prompt
\* ("-" when the add took the inferred name or ended before it asked)
GivenName ==
    IF last.name # <<>> THEN last.name
    ELSE IF /\ AddPrompts(last.path, last.name)
            /\ last.stage \notin {"validate", "load", "tracked"}
    THEN last.typed
    ELSE <<"-">>

\* C19: an add whose given or typed entry name is empty, has a path
\* separator, or is "." or ".." ends with an error and, no call having
\* failed, has moved nothing, so that no entry of the manifest ever has
\* such a name.
C19_NamesAreValidKeys ==
    /\ \A n \in DOMAIN manifest.Entries : ValidName(n)
    /\ (last.op = "add" /\ ~ValidName(GivenName) /\ inj = last.inj0)
           => /\ last.err # ""
              /\ manifest = last.preman
              /\ \A p \in HomePaths : Lstat(fs, p) = Lstat(last.prefs, p)

\* C20: adding a path that the manifest already lists is a no-op: when no
\* call fails, runAdd returns success and changes neither the filesystem
\* nor the manifest.
C20_AddTrackedIsNoOp ==
    (last.op = "add" /\ Listed(last.preman, last.path) /\ inj = last.inj0)
        => /\ last.err = ""
           /\ fs = last.prefs
           /\ manifest = last.preman

(***************************************************************************)
(* Properties of the early returns of dotsync add.                         *)
(***************************************************************************)
\* C21: an add whose storage destination exists fails and changes nothing:
\* the storage file keeps its bytes, the original stays a regular file, no
\* backup is made and the manifest is as it was.
C21_ExistingDestinationKept ==
    (last.op = "add" /\ last.dest # <<>> /\ Stat(last.prefs, last.dest).err = "")
        => /\ last.err = "file already exists in cloud storage"
           /\ last.bk = <<>>
           /\ fs = last.prefs
           /\ IsRegular(fs, last.path)
           /\ manifest = last.preman

\* An add found a file at its destination in the storage.
C21_Witness ==
    /\ last.op = "add"
    /\ last.stage = "exists"
    /\ IsRegular(last.prefs, last.dest)
    /\ IsRegular(fs, last.path)

(***************************************************************************)
(* Properties of ValidateForAdd, IsUnderHome and InferFromPath.            *)
(***************************************************************************)
\* home itself or a component-wise descendant of home
InHome(p) == p = UserHomeDir \/ StrictlyUnder(p, UserHomeDir)

C23_EarlyErrorsNoEffect ==
    last.op = "add" =>
        /\ Lstat(last.prefs, last.path).kind # "file" => last.stage = "validate"
        /\ ~IsUnderHome(last.path)
               => last.stage = "validate"
                  /\ last.err \in {"aborted", "file not found", "cannot track symlinks"}
        /\ last.stage \in {"validate", "resolve"}
               => /\ last.err # ""
                  /\ last.bk = <<>>
                  /\ fs = last.prefs
                  /\ manifest = last.preman

\* After an add has moved a file to the storage, an add was refused for a
\* conflict with an entry.
C23_Witness ==
    /\ last.op = "add"
    /\ last.err = "file is under entry"
    /\ \E p \in HomePaths : IsLink(last.prefs, p)
    /\ last.preman.state = "ok"

\* C24: IsUnderHome holds of home and of its component-wise descendants
\* only, and ValidateForAdd warns about a regular file anywhere else.
C24_UnderHomeByComponents ==
    /\ last.op = "underhome" => (last.res <=> InHome(last.path))
    /\ (last.op = "validate" /\ last.info.kind = "file" /\ ~InHome(last.path))
           => last.res.IsWarn

\* C25: InferFromPath infers nothing for a path that is not under home,
\* and never infers the name "." or a root outside home.
C25_NoInferenceOutsideHome ==
    last.op = "infer" =>
        /\ ~InHome(last.path) => ~last.res.ok
        /\ last.res.ok => /\ last.res.Name # <<".">>
                          /\ InHome(ExpandHome(last.res.Root))

\* the path components of a path in home, from home down
HomeParts(p) ==
    IF p = UserHomeDir THEN <<>> ELSE Split(SubSeq(p, Len(UserHomeDir) + 2, Len(p)))

Hidden(part) == HasPrefix(part, <<".">>)

\* what the three patterns of the claim give for the components of a path
Patterns(parts) ==
    IF Len(parts) >= 3 /\ parts[1] = DotConfig
    THEN InferResult(parts[2], <<"~", "/">> \o DotConfig \o <<"/">> \o parts[2],
                     Join(SubSeq(parts, 3, Len(parts))))
    ELSE IF Len(parts) >= 2 /\ Hidden(parts[1])
    THEN InferResult(Tail(parts[1]), <<"~", "/">> \o parts[1],
                     Join(SubSeq(parts, 2, Len(parts))))
    ELSE IF Len(parts) = 1 /\ Hidden(parts[1])
    THEN InferResult(TrimSuffix(Tail(parts[1]), <<"r", "c">>), <<"~">>, parts[1])
    ELSE NoInfer

\* C26: for every path under home InferFromPath gives what the first
\* matching pattern gives: ~/.config/X/rest, then ~/.X/rest, then ~/.X
\* (name without the dot and without a trailing "rc", root ~); any other
\* path gives no inference.
C26_InferPatterns ==
    (last.op = "infer" /\ InHome(last.path))
        => last.res = Patterns(HomeParts(last.path))

(***************************************************************************)
(* Properties of Manifest.AddFile.                                         *)
(***************************************************************************)
ListedIn(m, name, relPath) ==
    /\ name \in DOMAIN m.Entries
    /\ \E i \in 1..Len(m.Entries[name].Files) : m.Entries[name].Files[i] = relPath

\* C27: AddFile keeps every file list free of duplicates and in insertion
\* order.  It returns false and changes nothing when the file is listed;
\* otherwise it returns true, creates the entry with the given root if it
\* is absent, and appends the file at the end.  The root of an existing
\* entry and the other entries are never changed.
C27_AddFileAppendsOnce ==
    /\ \A n \in DOMAIN manifest.Entries :
           \A i, j \in 1..Len(manifest.Entries[n].Files) :
               i # j => manifest.Entries[n].Files[i] # manifest.Entries[n].Files[j]
    /\ last.op = "addfile" =>
         LET m == last.m
             n == last.name
             was == n \in DOMAIN m.Entries
         IN  /\ DOMAIN manifest.Entries = (DOMAIN m.Entries) \cup {n}
             /\ \A k \in (DOMAIN m.Entries) \ {n} : manifest.Entries[k] = m.Entries[k]
             /\ manifest.Entries[n].Root = IF was THEN m.Entries[n].Root ELSE last.root
             /\ last.added <=> ~ListedIn(m, n, last.relPath)
             /\ ~last.added => manifest = m
             /\ last.added
                    => manifest.Entries[n].Files
                           = Append(IF was THEN m.Entries[n].Files ELSE <<>>,
                                    last.relPath)

\* A second file was appended to an entry and then offered again.
C27_Witness ==
    /\ last.op = "addfile"
    /\ ~last.added
    /\ <<"a">> \in DOMAIN manifest.Entries
    /\ manifest.Entries[<<"a">>].Files = <<<<"f">>, <<"s", "/", "h">>>>
    /\ manifest.Entries[<<"a">>].Root # last.root

(***************************************************************************)
(* Properties of package backup.                                           *)
(***************************************************************************)
\* C28: after a successful Create of a file, and whatever happened to the
\* file since (overwritten, deleted, its directory removed), a successful
\* Restore leaves the file with the bytes and the permission bits it had
\* when Create ran, and the backup file no longer exists.
C28_RestoreRoundTrip ==
    (last.op = "restore" /\ last.err = "")
        => /\ Lstat(fs, F1) = last.node
           /\ last.bk \notin DOMAIN fs

\* The part of C28 about the restored file alone.
RestoredFileIsBack ==
    (last.op = "restore" /\ last.err = "") => Lstat(fs, F1) = last.node

(***************************************************************************)
(* Properties of the rollbacks and of the backups of the commands.         *)
(***************************************************************************)
\* The errors of runAdd that wrap the failure of the step alone.
StepErrors == {"moving file", "creating symlink", "saving manifest"}

\* C29: whenever a rollback step of Add (restoring the backup, moving the
\* file back, removing the symlink) itself fails, the error that Add
\* returns reports more than the failure that started the rollback.
C29_RollbackFailureReported ==
    (last.op = "add" /\ last.rb) => last.err \notin StepErrors

\* C30: when Add returns, or when Link's conflict handling returns, after
\* backup.Create succeeded, the backup file that the operation created is
\* no longer in the backup directory.
C30_NoBackupLeft ==
    /\ (last.op = "add" /\ last.bk # <<>>) => ~Exists(fs, last.bk)
    /\ last.op = "link" =>
           \A i \in Calls :
               last.log[i].bk # <<>> => ~Exists(last.log[i].after, last.log[i].bk)

(***************************************************************************)
(* Properties of the order of the steps of dotsync add.                    *)
(***************************************************************************)
\* C31: Add takes its steps in order, each only after the one before
\* succeeded.  When backup.Create fails nothing is moved; when the move or
\* the symlink creation fails no symlink is at the original path and the
\* manifest is not written; the manifest is written only when the symlink
\* had been created; and the backup is discarded (Add ends well) only with
\* the file in storage, the symlink in place and the manifest saved.
C31_AddStepOrder ==
    last.op = "add" =>
        /\ last.stage = "backup"
               => /\ Lstat(fs, last.path) = Lstat(last.prefs, last.path)
                  /\ ~Exists(fs, last.dest)
                  /\ manifest = last.preman
        /\ last.stage \in {"move", "symlink"}
               => ~IsLink(fs, last.path) /\ manifest = last.preman
        /\ manifest # last.preman => last.stage \in {"save", "done"}
        /\ last.stage = "done"
               => /\ last.bk # <<>>
                  /\ IsRegular(fs, last.dest)
                  /\ Lstat(fs, last.path) = LinkNode(last.dest)
                  /\ Listed(manifest, last.path)

\* backup.Create failed in an Add.
C31_Witness ==
    /\ last.op = "add"
    /\ last.stage = "backup"
    /\ last.err = "creating backup"
    /\ IsRegular(fs, last.path)

(***************************************************************************)
(* Properties of the conflict prompt of dotsync link.                      *)
(***************************************************************************)
\* The call reached the conflict handling: something other than the
\* expected symlink was at the path and the cloud copy was there.
Conflicting ==
    /\ last.op = "resolve"
    /\ Stat(last.prefs, CloudOf(F1)).err # "ENOENT"
    /\ Check(last.prefs, F1, CloudOf(F1)).err = ""
    /\ Check(last.prefs, F1, CloudOf(F1)).status \in {StatusIncorrect, StatusNotLinked}

\* C32: in automatic mode the conflict is resolved by backup whatever the
\* input; otherwise b/backup, s/skip and a/abort (any case, surrounded by
\* white space) choose backup, skip and abort, and every other line, the
\* empty one included, chooses skip; on skip the call reports skipped and
\* nothing on disk has changed.
C32_UnknownAnswerSkips ==
    Conflicting =>
        /\ last.action = (IF last.autoBackup \/ last.input \in BackupLines
                          THEN conflictBackup
                          ELSE IF last.input \in AbortLines THEN conflictAbort
                          ELSE conflictSkip)
        /\ last.action = conflictSkip
               => last.result = linkResultSkipped /\ fs = last.prefs

\* The user answered the prompt for a plain file with an empty line.
C32_Witness ==
    /\ Conflicting
    /\ ~last.autoBackup
    /\ last.input = <<>>
    /\ IsRegular(last.prefs, F1)
    /\ last.result = linkResultSkipped

\* C33: when Restore fails (the parent directory cannot be created or the
\* copy back fails), the backup file, if it was there when Restore was
\* called, is still there and holds the bytes that Create captured.
C33_FailedRestoreKeepsBackup ==
    (last.op = "restore" /\ last.err # "" /\ last.had)
        => /\ IsRegular(fs, last.bk)
           /\ Lstat(fs, last.bk).data = last.node.data

\* The copy back stopped part-way.
C33_Witness ==
    /\ last.op = "restore"
    /\ last.err = "restoring from backup"
    /\ last.had
    /\ Lstat(fs, F1).data = "partial"

(***************************************************************************)
(* Properties of symlink.Remove.                                           *)
(***************************************************************************)
\* C34: Remove deletes nothing but a symlink.  On a regular file or a
\* directory it returns an error and changes nothing; on a missing path it
\* returns nil and changes nothing; on a symlink it removes the link alone
\* (or fails and changes nothing), and the target of the link stays.
C34_RemoveOnlySymlinks ==
    last.op = "remove" =>
        LET was == Lstat(last.prefs, last.link).kind
        IN  /\ was \in {"file", "dir"} => last.err # "" /\ fs = last.prefs
            /\ was = "none" => last.err = "" /\ fs = last.prefs
            /\ was = "link"
                   => fs = IF last.err = "" THEN Del(last.prefs, last.link)
                           ELSE last.prefs

\* A symlink to an existing file was removed.
C34_Witness ==
    /\ last.op = "remove"
    /\ last.err = ""
    /\ IsLink(last.prefs, last.link)
    /\ IsRegular(last.prefs, Lstat(last.prefs, last.link).target)
    /\ IsRegular(fs, Lstat(last.prefs, last.link).target)
    /\ ~Exists(fs, last.link)

(***************************************************************************)
(* Invariants of the manifest that dotsync add writes.                     *)
(***************************************************************************)
\* C35: after any sequence of Adds, failed or not, every file that the
\* persisted manifest lists has its copy at storage/dotsync/<entry>/<file>,
\* and its original path root/file is a symlink that Check reports Linked
\* to that copy.
C35_ListedFilesAreLinked ==
    \A n \in DOMAIN manifest.Entries :
        \A i \in 1..Len(manifest.Entries[n].Files) :
            LET file == manifest.Entries[n].Files[i]
                original == Join(<<ExpandHome(manifest.Entries[n].Root), file>>)
                copy == Join(<<StoragePath, DotSync, n, file>>)
            IN  /\ IsRegular(fs, copy)
                /\ Check(fs, original, copy).err = ""
                /\ Check(fs, original, copy).status = StatusLinked

(***************************************************************************)
(* Properties of the backups that dotsync link takes.                      *)
(***************************************************************************)
\* C36: the backups taken in one run of link --backup do not overwrite each
\* other.  When the run has ended without a failing call, every file that
\* was replaced has a backup file of its own, and that backup file holds
\* the content that was read at the original path before the replacement.
C36_BackupsKeptApart ==
    (last.op = "link" /\ last.autoBackup /\ \A i \in Calls : NoFault(last.log[i]))
        => \A i \in Calls :
               last.log[i].bk # <<>>
                   => /\ IsRegular(fs, last.log[i].bk)
                      /\ Lstat(fs, last.log[i].bk).data
                             = ContentAt(last.log[i].before, last.log[i].originalPath)
                      /\ \A j \in Calls \ {i} : last.log[j].bk # last.log[i].bk

\* what is at a path, the permission bits left aside
Item(f, p) == [kind |-> Lstat(f, p).kind, data |-> Lstat(f, p).data,
               target |-> Lstat(f, p).target]

\* the backup-and-replace of call i failed after the backup was taken, and
\* the backup was restored
ReplaceUndone(i) ==
    /\ last.log[i].action = conflictBackup
    /\ last.log[i].bk # <<>>
    /\ last.log[i].result = linkResultFailed
    /\ ~last.log[i].rb

\* C37: when the backup-and-replace of Link fails after the backup was
\* taken (removing the existing item or creating the symlink fails) and
\* the backup is restored, the original path is what it was before: a
\* plain file with the same bytes, or a symlink to the same target.
C37_FailedReplaceRestores ==
    last.op = "link" =>
        \A i \in Calls :
            ReplaceUndone(i)
                => Item(last.log[i].after, last.log[i].originalPath)
                       = Item(last.log[i].before, last.log[i].originalPath)

\* The same for the plain files alone.
FailedReplaceRestoresFiles ==
    last.op = "link" =>
        \A i \in Calls :
            (ReplaceUndone(i) /\ IsRegular(last.log[i].before, last.log[i].originalPath))
                => Item(last.log[i].after, last.log[i].originalPath)
                       = Item(last.log[i].before, last.log[i].originalPath)

(***************************************************************************)
(* Properties of the rollback of dotsync unlink.                           *)
(***************************************************************************)
\* C38: when the copy from storage fails in Unlink after the symlink was
\* removed, unlinkFile reports failed and the original path is again a
\* symlink to the cloud copy, not empty and not a partial regular file.
C38_FailedCopyRelinks ==
    last.op = "unlink" =>
        \A i \in Calls :
            last.log[i].err = "copying file"
                => /\ last.log[i].result = unlinkResultFailed
                   /\ Lstat(last.log[i].after, last.log[i].originalPath)
                          = LinkNode(last.log[i].cloudPath)

\* The same when the copy failed before it wrote anything.
FailedCopyRelinksUnwritten ==
    last.op = "unlink" =>
        \A i \in Calls :
            (last.log[i].err = "copying file" /\ ~last.log[i].rb)
                => /\ last.log[i].result = unlinkResultFailed
                   /\ Lstat(last.log[i].after, last.log[i].originalPath)
                          = LinkNode(last.log[i].cloudPath)

(***************************************************************************)
(* Properties of CheckEntryConflict over the orders of the entries map.    *)
(***************************************************************************)
\* C39: on a manifest that Add has written, CheckEntryConflict returns the
\* same result for a path and a name whatever the order in which the
\* entries map is ranged over.
C39_ConflictOfInputsOnly ==
    Asked => CheckEntryConflict(last.absPath, last.explicitName, last.m) = {last.result}

(***************************************************************************)
(* Properties of the place in storage that dotsync add chooses.            *)
(***************************************************************************)
\* storage/dotsync/<entryName>/
EntryDir(entryName) ==
    StoragePath \o <<Separator>> \o DotSync \o <<Separator>> \o entryName
        \o <<Separator>>

\* C40: every successful Add has moved the file into the directory of its
\* own entry: the destination is below storage/dotsync/<entryName>/ and
\* the relative path written to the manifest has no ".." segment.
C40_DestinationInsideEntry ==
    (last.op = "add" /\ last.stage = "done")
        => /\ HasPrefix(last.dest, EntryDir(last.entry))
           /\ \A k \in 1..Len(Split(last.rel)) : Split(last.rel)[k] # <<".", ".">>

\* The same for the Adds that name an existing entry with --name.
NamedDestinationInsideEntry ==
    (last.op = "add" /\ last.stage = "done" /\ last.name # <<>>
        /\ last.name \in DOMAIN last.preman.Entries)
        => /\ HasPrefix(last.dest, EntryDir(last.entry))
           /\ \A k \in 1..Len(Split(last.rel)) : Split(last.rel)[k] # <<".", ".">>

====
